---- MODULE Spec2Model ----
(***************************************************************************)
(* A model of the NES emulator core: the 6502 interpreter (cpu/cpu.rs),    *)
(* its decoder table (cpu/decoder.rs), the processor status register       *)
(* (cpu/registers.rs), the memory-mapping unit (mmu.rs), the cartridge     *)
(* (cartridge.rs), the iNES parser (rom_parser.rs) and the PPU/APU         *)
(* register files.                                                         *)
(*                                                                         *)
(* A Rust panic (todo!(), panic!(), expect(), an index out of bounds, an   *)
(* arithmetic overflow in a build with overflow checks) ends the machine:  *)
(* `status` leaves "running" and names the kind of the panic.  Arithmetic  *)
(* overflow of the plain operators + and - panics in a build with overflow *)
(* checks and wraps in a build without; `overflow_checks` is chosen once,  *)
(* in Init, and never changes.                                             *)
(***************************************************************************)
EXTENDS Integers, Sequences, FiniteSets, TLC

VARIABLES
  registers,        \* Registers: A, X, Y, P (flags byte), S, PC
  cycles,           \* CPU.cycles
  lower_memory,     \* LowerMemory: zero_page, stack, ram
  ppu,              \* PPU.registers, eight bytes
  apu,              \* APU.registers
  rom_file,         \* the file NES::new_open_rom_file read: length, non-zero bytes
  cartridge,        \* Cartridge: the bank counts, prg_rom, chr_rom
  mmu,              \* MMU: the two active PRG bank numbers
  status,           \* "running", or the kind of the panic that ended the machine
  overflow_checks,  \* TRUE: the build panics on arithmetic overflow; FALSE: it wraps
  last              \* what the last operation was and the state it started from

vars == <<registers, cycles, lower_memory, ppu, apu, rom_file, cartridge, mmu,
          status, overflow_checks, last>>

----------------------------------------------------------------------------
(* Bounds of the model. *)

\* clock_tick is not taken once the cycle counter has reached this value.
MaxCycles == 40

----------------------------------------------------------------------------
(* Bytes, words and bits. *)

Byte == 0..255
U8 == 256
U16 == 65536

Bit(v, i) == (v \div (2^i)) % 2

And8(a, b) ==
  LET t(i) == IF Bit(a, i) = 1 /\ Bit(b, i) = 1 THEN 2^i ELSE 0
  IN t(0) + t(1) + t(2) + t(3) + t(4) + t(5) + t(6) + t(7)

Or8(a, b) ==
  LET t(i) == IF Bit(a, i) = 1 \/ Bit(b, i) = 1 THEN 2^i ELSE 0
  IN t(0) + t(1) + t(2) + t(3) + t(4) + t(5) + t(6) + t(7)

Xor8(a, b) ==
  LET t(i) == IF Bit(a, i) # Bit(b, i) THEN 2^i ELSE 0
  IN t(0) + t(1) + t(2) + t(3) + t(4) + t(5) + t(6) + t(7)

\* `x as i8`: the byte read as a two's-complement number.
AsI8(x) == IF x >= 128 THEN x - 256 ELSE x

\* A Rust array [u8; len] that starts as zeros: the function holds the non-zero
\* bytes only, every other index reads 0.
ArrayGet(arr, i) == IF i \in DOMAIN arr THEN arr[i] ELSE 0

ArrayPut(arr, i, v) ==
  IF v = 0
    THEN [j \in (DOMAIN arr) \ {i} |-> arr[j]]
    ELSE [j \in (DOMAIN arr) \cup {i} |-> IF j = i THEN v ELSE arr[j]]

----------------------------------------------------------------------------
(* cpu/registers.rs: the processor status register. *)

CARRY == 0
ZERO == 1
InterruptDisable == 2
DECIMAL == 3
BREAK == 4
UNUSED == 5
OVERFLOW == 6
NEGATIVE == 7

\* ProcessorStatusRegister::default: only the unused bit is set.
ProcessorStatus_default == 32

\* ProcessorStatus::set that also clears the unused bit.
ProcessorStatus_set_clearing_unused(flags, bit, value) ==
  LET cleared == flags - (Bit(flags, UNUSED) * 32)
  IN IF value
       THEN cleared + ((1 - Bit(cleared, bit)) * 2^bit)
       ELSE cleared - (Bit(cleared, bit) * 2^bit)

\* ProcessorStatusRegister::set
ProcessorStatus_set(flags, bit, value) ==
  IF value
    THEN flags + (1 - Bit(flags, bit)) * 2^bit
    ELSE flags - Bit(flags, bit) * 2^bit

\* ProcessorStatusRegister::get
ProcessorStatus_get(flags, bit) == Bit(flags, bit) # 0

\* modify_n, modify_z: called by the executor for every result it stores; their
\* bodies are not part of the source tree, so they follow the specification:
\* N is bit 7 of the value, Z is (value == 0).
modify_n(flags, value) == ProcessorStatus_set(flags, NEGATIVE, Bit(value, 7) = 1)

modify_z(flags, value) == ProcessorStatus_set(flags, ZERO, value = 0)

----------------------------------------------------------------------------
(* cpu/decoder.rs: decode_opcode.  Each entry is                           *)
(* <<opcode, instruction, addressing mode, bytes, cycles, oops cycle>>.    *)

DecodeRows == <<
  <<0, "BRK", "IMPLIED", 1, 2, "NONE">>,
  <<1, "ORA", "INDIRECTX", 2, 6, "NONE">>,
  <<5, "ORA", "ZEROPAGE", 2, 3, "NONE">>,
  <<6, "ASL", "ZEROPAGE", 2, 5, "NONE">>,
  <<8, "PHP", "IMPLIED", 1, 3, "NONE">>,
  <<9, "ORA", "IMMEDIATE", 2, 2, "NONE">>,
  <<10, "ASL", "ACCUMULATOR", 1, 2, "NONE">>,
  <<13, "ORA", "ABSOLUTE", 3, 4, "NONE">>,
  <<14, "ASL", "ABSOLUTE", 3, 6, "NONE">>,
  <<16, "BPL", "RELATIVE", 2, 2, "BranchOccursOn">>,
  <<17, "ORA", "INDIRECTY", 2, 5, "PageBoundryCrossed">>,
  <<21, "ORA", "ZEROPAGEX", 2, 4, "NONE">>,
  <<22, "ASL", "ZEROPAGEX", 2, 6, "NONE">>,
  <<24, "CLC", "IMPLIED", 1, 2, "NONE">>,
  <<25, "ORA", "ABSOLUTEY", 3, 4, "PageBoundryCrossed">>,
  <<29, "ORA", "ABSOLUTEX", 3, 4, "PageBoundryCrossed">>,
  <<30, "ASL", "ABSOLUTEX", 3, 7, "NONE">>,
  <<32, "JSR", "ABSOLUTE", 3, 6, "NONE">>,
  <<33, "AND", "INDIRECTX", 2, 6, "NONE">>,
  <<36, "BIT", "ZEROPAGE", 2, 3, "NONE">>,
  <<37, "AND", "ZEROPAGE", 2, 3, "NONE">>,
  <<38, "ROL", "ZEROPAGE", 2, 5, "NONE">>,
  <<40, "PLP", "IMPLIED", 1, 4, "NONE">>,
  <<41, "AND", "IMMEDIATE", 2, 2, "NONE">>,
  <<42, "ROL", "ACCUMULATOR", 1, 2, "NONE">>,
  <<44, "BIT", "ABSOLUTE", 3, 4, "NONE">>,
  <<45, "AND", "ABSOLUTE", 3, 4, "NONE">>,
  <<46, "ROL", "ABSOLUTE", 3, 6, "NONE">>,
  <<48, "BMI", "RELATIVE", 2, 2, "BranchOccursOn">>,
  <<49, "AND", "INDIRECTY", 2, 5, "PageBoundryCrossed">>,
  <<53, "AND", "ZEROPAGEX", 2, 4, "NONE">>,
  <<54, "ROL", "ZEROPAGEX", 2, 6, "NONE">>,
  <<56, "SEC", "IMPLIED", 1, 2, "NONE">>,
  <<57, "AND", "ABSOLUTEY", 3, 4, "PageBoundryCrossed">>,
  <<61, "AND", "ABSOLUTEX", 3, 4, "PageBoundryCrossed">>,
  <<62, "ROL", "ABSOLUTEX", 3, 7, "NONE">>,
  <<64, "RTI", "IMMEDIATE", 1, 6, "NONE">>,
  <<65, "EOR", "INDIRECTX", 2, 6, "NONE">>,
  <<69, "EOR", "ZEROPAGE", 2, 3, "NONE">>,
  <<70, "LSR", "ZEROPAGE", 2, 5, "NONE">>,
  <<72, "PHA", "IMPLIED", 1, 3, "NONE">>,
  <<73, "EOR", "IMMEDIATE", 2, 2, "NONE">>,
  <<74, "LSR", "ACCUMULATOR", 1, 2, "NONE">>,
  <<76, "JMP", "ABSOLUTE", 3, 3, "NONE">>,
  <<77, "EOR", "ABSOLUTE", 3, 4, "NONE">>,
  <<78, "LSR", "ABSOLUTE", 3, 6, "NONE">>,
  <<80, "BVC", "RELATIVE", 2, 2, "BranchOccursOn">>,
  <<81, "EOR", "INDIRECTY", 2, 5, "BranchOccursOn">>,
  <<85, "EOR", "ZEROPAGEX", 2, 4, "NONE">>,
  <<86, "LSR", "ZEROPAGEX", 2, 6, "NONE">>,
  <<88, "CLI", "IMPLIED", 1, 2, "NONE">>,
  <<89, "EOR", "ABSOLUTEY", 3, 4, "PageBoundryCrossed">>,
  <<93, "EOR", "ABSOLUTEX", 3, 4, "PageBoundryCrossed">>,
  <<94, "LSR", "ABSOLUTEX", 3, 7, "NONE">>,
  <<96, "RTS", "IMPLIED", 1, 6, "NONE">>,
  <<97, "ADC", "INDIRECTX", 2, 6, "NONE">>,
  <<101, "ADC", "ZEROPAGE", 2, 3, "NONE">>,
  <<102, "ROR", "ZEROPAGE", 2, 5, "NONE">>,
  <<104, "PLA", "IMPLIED", 1, 4, "NONE">>,
  <<105, "ADC", "IMMEDIATE", 2, 2, "NONE">>,
  <<106, "ROR", "ACCUMULATOR", 1, 2, "NONE">>,
  <<108, "JMP", "INDIRECT", 3, 5, "NONE">>,
  <<109, "ADC", "ABSOLUTE", 3, 4, "NONE">>,
  <<110, "ROR", "ABSOLUTE", 3, 6, "NONE">>,
  <<112, "BVS", "RELATIVE", 2, 2, "BranchOccursOn">>,
  <<113, "ADC", "INDIRECTY", 2, 5, "PageBoundryCrossed">>,
  <<117, "ADC", "ZEROPAGEX", 2, 4, "NONE">>,
  <<118, "ROR", "ZEROPAGEX", 2, 6, "NONE">>,
  <<120, "SEI", "IMPLIED", 1, 2, "NONE">>,
  <<121, "ADC", "ABSOLUTEY", 3, 4, "PageBoundryCrossed">>,
  <<125, "ADC", "ABSOLUTEX", 3, 4, "PageBoundryCrossed">>,
  <<126, "ROR", "ABSOLUTEX", 3, 7, "NONE">>,
  <<129, "STA", "INDIRECTX", 2, 6, "NONE">>,
  <<132, "STY", "ZEROPAGE", 2, 3, "NONE">>,
  <<133, "STA", "ZEROPAGE", 2, 3, "NONE">>,
  <<134, "STX", "ZEROPAGE", 2, 3, "NONE">>,
  <<136, "DEY", "IMPLIED", 1, 2, "NONE">>,
  <<138, "TXA", "IMPLIED", 1, 2, "NONE">>,
  <<140, "STY", "ABSOLUTE", 3, 4, "NONE">>,
  <<141, "STA", "ABSOLUTE", 3, 4, "NONE">>,
  <<142, "STX", "ABSOLUTE", 3, 4, "NONE">>,
  <<144, "BCC", "RELATIVE", 2, 2, "BranchOccursOn">>,
  <<145, "STA", "INDIRECTY", 2, 6, "NONE">>,
  <<148, "STY", "ZEROPAGEX", 2, 4, "NONE">>,
  <<149, "STA", "ZEROPAGEX", 2, 4, "NONE">>,
  <<150, "STX", "ZEROPAGEY", 2, 4, "NONE">>,
  <<152, "TYA", "IMPLIED", 1, 2, "NONE">>,
  <<153, "STA", "ABSOLUTEY", 3, 5, "NONE">>,
  <<154, "TXS", "IMPLIED", 1, 2, "NONE">>,
  <<157, "STA", "ABSOLUTEX", 3, 5, "NONE">>,
  <<160, "LDY", "IMMEDIATE", 2, 2, "NONE">>,
  <<161, "LDA", "INDIRECTX", 2, 6, "NONE">>,
  <<162, "LDX", "IMMEDIATE", 2, 2, "NONE">>,
  <<164, "LDY", "ZEROPAGE", 2, 3, "NONE">>,
  <<165, "LDA", "ZEROPAGE", 2, 3, "NONE">>,
  <<166, "LDX", "ZEROPAGE", 2, 3, "NONE">>,
  <<168, "TAY", "IMPLIED", 1, 2, "NONE">>,
  <<169, "LDA", "IMMEDIATE", 2, 2, "NONE">>,
  <<170, "TAX", "IMPLIED", 1, 2, "NONE">>,
  <<172, "LDY", "ABSOLUTE", 3, 4, "NONE">>,
  <<173, "LDA", "ABSOLUTE", 3, 4, "NONE">>,
  <<174, "LDX", "ABSOLUTE", 3, 4, "NONE">>,
  <<176, "BCS", "RELATIVE", 2, 2, "BranchOccursOn">>,
  <<177, "LDA", "INDIRECTY", 2, 5, "PageBoundryCrossed">>,
  <<180, "LDY", "ZEROPAGEX", 2, 4, "NONE">>,
  <<181, "LDA", "ZEROPAGEX", 2, 4, "NONE">>,
  <<182, "LDX", "ZEROPAGEY", 2, 4, "NONE">>,
  <<184, "CLV", "IMPLIED", 1, 2, "NONE">>,
  <<185, "LDA", "ABSOLUTEY", 3, 4, "PageBoundryCrossed">>,
  <<186, "TSX", "IMPLIED", 1, 2, "NONE">>,
  <<188, "LDY", "ABSOLUTEX", 3, 4, "PageBoundryCrossed">>,
  <<189, "LDA", "ABSOLUTEX", 3, 4, "PageBoundryCrossed">>,
  <<190, "LDX", "ABSOLUTEY", 3, 4, "PageBoundryCrossed">>,
  <<192, "CPY", "IMMEDIATE", 2, 2, "NONE">>,
  <<193, "CMP", "INDIRECTX", 2, 6, "NONE">>,
  <<196, "CPY", "ZEROPAGE", 2, 3, "NONE">>,
  <<197, "CMP", "ZEROPAGE", 2, 3, "NONE">>,
  <<198, "DEC", "ZEROPAGE", 2, 5, "NONE">>,
  <<200, "INY", "IMPLIED", 1, 2, "NONE">>,
  <<201, "CMP", "IMMEDIATE", 2, 2, "NONE">>,
  <<202, "DEX", "IMPLIED", 1, 2, "NONE">>,
  <<204, "CPY", "ABSOLUTE", 3, 4, "NONE">>,
  <<205, "CMP", "ABSOLUTE", 3, 4, "NONE">>,
  <<206, "DEC", "ABSOLUTE", 3, 6, "NONE">>,
  <<208, "BNE", "RELATIVE", 2, 2, "BranchOccursOn">>,
  <<209, "CMP", "INDIRECTY", 2, 5, "PageBoundryCrossed">>,
  <<213, "CMP", "ZEROPAGEX", 2, 4, "NONE">>,
  <<214, "DEC", "ZEROPAGEX", 2, 6, "NONE">>,
  <<216, "CLD", "IMPLIED", 1, 2, "NONE">>,
  <<217, "CMP", "ABSOLUTEY", 3, 4, "PageBoundryCrossed">>,
  <<221, "CMP", "ABSOLUTEX", 3, 4, "PageBoundryCrossed">>,
  <<222, "DEC", "ABSOLUTEX", 3, 7, "NONE">>,
  <<224, "CPX", "IMMEDIATE", 2, 2, "NONE">>,
  <<225, "SBC", "INDIRECTX", 2, 6, "NONE">>,
  <<228, "CPX", "ZEROPAGE", 2, 3, "NONE">>,
  <<229, "SBC", "ZEROPAGE", 2, 3, "NONE">>,
  <<230, "INC", "ZEROPAGE", 2, 5, "NONE">>,
  <<232, "INX", "IMPLIED", 1, 2, "NONE">>,
  <<233, "SBC", "IMMEDIATE", 2, 2, "NONE">>,
  <<234, "NOP", "IMPLIED", 1, 2, "NONE">>,
  <<236, "CPX", "ABSOLUTE", 3, 4, "NONE">>,
  <<237, "SBC", "ABSOLUTE", 3, 4, "NONE">>,
  <<238, "INC", "ABSOLUTE", 3, 6, "NONE">>,
  <<240, "BEQ", "RELATIVE", 2, 2, "BranchOccursOn">>,
  <<241, "SBC", "INDIRECTY", 2, 5, "PageBoundryCrossed">>,
  <<245, "SBC", "ZEROPAGEX", 2, 4, "NONE">>,
  <<246, "INC", "ZEROPAGEX", 2, 6, "NONE">>,
  <<248, "SED", "IMPLIED", 1, 2, "NONE">>,
  <<249, "SBC", "ABSOLUTEY", 3, 4, "PageBoundryCrossed">>,
  <<253, "SBC", "ABSOLUTEX", 3, 4, "PageBoundryCrossed">>,
  <<254, "INC", "ABSOLUTEX", 3, 7, "NONE">>
>>

\* The table as a function of the opcode byte.
DecodeTable ==
  [opcode \in {DecodeRows[i][1] : i \in 1..Len(DecodeRows)} |->
     LET row == DecodeRows[CHOOSE i \in 1..Len(DecodeRows) : DecodeRows[i][1] = opcode]
     IN <<row[2], row[3], row[4], row[5], row[6]>>]

DocumentedOpcodes == DOMAIN DecodeTable

----------------------------------------------------------------------------
(* The machine as the executor threads it through one operation: the       *)
(* mutable parts of the CPU, the status, `ret`, the value the last step     *)
(* returned, and what the tick logs: the opcode and the fetched byte.      *)

Running(M) == M.status = "running"

Panic(M, kind) == IF Running(M) THEN [M EXCEPT !.status = kind] ELSE M

Ret(M, v) == [M EXCEPT !.ret = v]

\* Sequencing: the next step K runs on the machine the previous step left,
\* unless that step panicked.
Bind(M, K(_)) == IF Running(M) THEN K(M) ELSE M

\* The operator + on u16 or u8 (modulus `width`).
checked_add(M, a, b, width) ==
  IF ~Running(M) THEN M
  ELSE IF a + b >= width /\ overflow_checks THEN Panic(M, "overflow")
  ELSE Ret(M, (a + b) % width)

\* The operator - on u8.
checked_sub(M, a, b, width) ==
  IF ~Running(M) THEN M
  ELSE IF a - b < 0 /\ overflow_checks THEN Panic(M, "overflow")
  ELSE Ret(M, (a - b + width) % width)

----------------------------------------------------------------------------
(* cartridge.rs, ppu/ppu.rs, apu/apu.rs, mmu.rs. *)

PrgBankSize == 16384
ZeroPageLen == 255
ApuRegistersLen == 23

\* Cartridge::read_prg_rom
read_prg_rom(M, num_bank, addr) ==
  IF num_bank >= cartridge.prg_banks THEN Panic(M, "expect")
  ELSE IF addr >= PrgBankSize THEN Panic(M, "index")
  ELSE Ret(M, ArrayGet(cartridge.prg_rom, num_bank * PrgBankSize + addr))

\* read_register without the clearing of bit 7.
read_register_without_clear(M, addr) == Ret(M, M.ppu[addr])

\* PPU::read_register: returns the register and clears its bit 7.
read_register(M, addr) ==
  LET result == M.ppu[addr]
      cleared_bit_7 == result - Bit(result, 7) * 128
  IN Ret([M EXCEPT !.ppu[addr] = cleared_bit_7], result)

\* PPU::write_register
write_register(M, addr, value) == [M EXCEPT !.ppu[addr] = value]

\* MMU::read_request
read_request(M, addr) ==
  IF ~Running(M) THEN M
  ELSE IF addr \in 32768..49151
    THEN read_prg_rom(M, mmu.active_prgbank_number_lower, addr - 32768)
  ELSE IF addr \in 49152..65535
    THEN read_prg_rom(M, mmu.active_prgbank_number_upper, addr - 49152)
  ELSE IF addr \in 0..255
    THEN IF addr >= ZeroPageLen THEN Panic(M, "index")
         ELSE Ret(M, ArrayGet(M.lower_memory.zero_page, addr))
  ELSE IF addr \in 8192..8199 THEN read_register(M, addr - 8192)
  ELSE IF addr \in 8200..16383 THEN Panic(M, "todo")
  ELSE Panic(M, "todo")

\* MMU::write_request
write_request(M, addr, value) ==
  IF ~Running(M) THEN M
  ELSE IF addr \in 32768..49151 THEN Panic(M, "todo")
  ELSE IF addr \in 49152..65535 THEN Panic(M, "todo")
  ELSE IF addr \in 0..255
    THEN IF addr >= ZeroPageLen THEN Panic(M, "index")
         ELSE [M EXCEPT !.lower_memory.zero_page = ArrayPut(@, addr, value)]
  ELSE IF addr \in 8192..8199 THEN write_register(M, addr - 8192, value)
  ELSE IF addr \in 8200..16383 THEN Panic(M, "todo")
  ELSE IF addr \in 16384..16407
    THEN IF addr - 16384 >= ApuRegistersLen THEN Panic(M, "index")
         ELSE [M EXCEPT !.apu = ArrayPut(@, addr - 16384, value)]
  ELSE Panic(M, "todo")

\* CPU::read_memory
read_memory(M, addr) == read_request(M, addr)

\* CPU::write_memory
write_memory(M, addr, value) == write_request(M, addr, value)

----------------------------------------------------------------------------
(* cpu/cpu.rs: the helpers of the executor. *)

\* CPU::push_stack
push_stack(M, data) ==
  Bind(write_memory(M, 256 + M.registers.S, data), LAMBDA m1 :
  Bind(checked_sub(m1, m1.registers.S, 1, U8), LAMBDA m2 :
  [m2 EXCEPT !.registers.S = m2.ret]))

\* CPU::pop_stack
pop_stack(M) ==
  Bind(read_memory(M, 256 + M.registers.S + 1), LAMBDA m1 :
  [m1 EXCEPT !.registers.S = (@ + 1) % U8])

\* u8::to_string: the decimal digits of the byte, most significant first.
RECURSIVE to_string(_)
to_string(data) ==
  IF data < 10 THEN <<data>> ELSE Append(to_string(data \div 10), data % 10)

\* <[u8; 1]>::from_hex: exactly two hex digits make the byte; any other length
\* is an error, returned here as the empty sequence.
from_hex(hex_str) ==
  IF Len(hex_str) # 2 THEN <<>> ELSE <<16 * hex_str[1] + hex_str[2]>>

\* CPU::decimal_mode
decimal_mode(M, data) ==
  IF ~Running(M) THEN M
  ELSE IF from_hex(to_string(data)) = <<>> THEN Panic(M, "expect")
  ELSE Ret(M, from_hex(to_string(data))[1])

\* CPU::read_address_from_memory
read_address_from_memory(M, addr) ==
  Bind(read_memory(M, addr), LAMBDA m1 :
  Bind(checked_add(m1, addr, 1, U16), LAMBDA m2 :
  Bind(read_memory(m2, m2.ret), LAMBDA m3 :
  Ret(m3, m3.ret * 256 + m1.ret))))

\* CPU::read_instruction_absolute_address
read_instruction_absolute_address(M) ==
  Bind(checked_add(M, M.registers.PC, 1, U16), LAMBDA m1 :
  read_address_from_memory(m1, m1.ret))

\* CPU::read_instruction_absolute_indexed_address
read_instruction_absolute_indexed_address(M, index) ==
  Bind(read_instruction_absolute_address(M), LAMBDA m1 :
  checked_add(m1, m1.ret, index, U16))

\* CPU::read_instruction_zero_page_address
read_instruction_zero_page_address(M) ==
  Bind(checked_add(M, M.registers.PC, 1, U16), LAMBDA m1 :
  read_memory(m1, m1.ret))

\* CPU::read_instruction_indirect_address
read_instruction_indirect_address(M) ==
  Bind(read_instruction_absolute_address(M), LAMBDA m1 :
  read_address_from_memory(m1, m1.ret))

\* read_instruction_relative_address with the operand taken as unsigned.
read_instruction_relative_address_unsigned(M) ==
  Bind(checked_add(M, M.registers.PC, 1, U16), LAMBDA m1 :
  Bind(read_memory(m1, m1.ret), LAMBDA m2 :
  Ret(m2, (m2.registers.PC + m2.ret) % U16)))

\* CPU::read_instruction_relative_address
read_instruction_relative_address(M) ==
  Bind(checked_add(M, M.registers.PC, 1, U16), LAMBDA m1 :
  Bind(read_memory(m1, m1.ret), LAMBDA m2 :
  Ret(m2, (m2.registers.PC + AsI8(m2.ret) + U16) % U16)))

\* CPU::push_pc
push_pc(M, offset) ==
  Bind(push_stack(M, ((M.registers.PC + offset) % U16) \div 256), LAMBDA m1 :
  push_stack(m1, ((M.registers.PC + offset) % U16) % 256))

\* CPU::push_p
push_p(M) == push_stack(M, M.registers.P)

\* CPU::pop_pc
pop_pc(M) ==
  Bind(pop_stack(M), LAMBDA m1 :
  Bind(pop_stack(m1), LAMBDA m2 :
  Ret(m2, m2.ret * 256 + m1.ret)))

\* CPU::fetch_absolute_indexed
fetch_absolute_indexed(M, index) ==
  Bind(read_instruction_absolute_indexed_address(M, index), LAMBDA m1 :
  read_memory(m1, m1.ret))

\* CPU::fetch_zero_page_indexed
fetch_zero_page_indexed(M, index) ==
  Bind(read_instruction_zero_page_address(M), LAMBDA m1 :
  read_memory(m1, (m1.ret + index) % U8))

\* CPU::fetch_memory, by addressing mode.
fetch_memory_mode(M, addrmode) ==
  CASE addrmode = "IMPLIED" -> Panic(M, "implied")
    [] addrmode = "IMMEDIATE" ->
         Bind(checked_add(M, M.registers.PC, 1, U16), LAMBDA m1 :
         read_memory(m1, m1.ret))
    [] addrmode = "ACCUMULATOR" -> Ret(M, M.registers.A)
    [] addrmode = "ZEROPAGE" ->
         Bind(read_instruction_zero_page_address(M), LAMBDA m1 :
         read_memory(m1, m1.ret))
    [] addrmode = "ZEROPAGEX" -> fetch_zero_page_indexed(M, M.registers.X)
    [] addrmode = "ZEROPAGEY" -> fetch_zero_page_indexed(M, M.registers.Y)
    [] addrmode = "ABSOLUTE" -> fetch_absolute_indexed(M, 0)
    [] addrmode = "ABSOLUTEX" -> fetch_absolute_indexed(M, M.registers.X)
    [] addrmode = "ABSOLUTEY" -> fetch_absolute_indexed(M, M.registers.Y)
    [] OTHER -> Panic(M, "addressing_mode")

\* CPU::fetch_memory.  The fetched byte is also kept in `fetched`, as the
\* function's debug! lines report it.
fetch_memory(M, addrmode) ==
  Bind(fetch_memory_mode(M, addrmode), LAMBDA r : [r EXCEPT !.fetched = r.ret])

\* CPU::fetch_instruction_address
fetch_instruction_address(M, addrmode) ==
  CASE addrmode = "IMMEDIATE" ->
         Bind(checked_add(M, M.registers.PC, 1, U16), LAMBDA m1 :
         read_memory(m1, m1.ret))
    [] addrmode = "ABSOLUTE" -> read_instruction_absolute_address(M)
    [] addrmode = "ZEROPAGE" -> read_instruction_zero_page_address(M)
    [] addrmode = "INDIRECT" -> read_instruction_indirect_address(M)
    [] addrmode = "ABSOLUTEX" ->
         read_instruction_absolute_indexed_address(M, M.registers.X)
    [] addrmode = "ABSOLUTEY" ->
         read_instruction_absolute_indexed_address(M, M.registers.Y)
    [] OTHER -> Panic(M, "todo")

Flag(M, bit) == ProcessorStatus_get(M.registers.P, bit)

SetFlag(M, bit, value) ==
  [M EXCEPT !.registers.P = ProcessorStatus_set(@, bit, value)]

\* The N and Z updates that follow a stored result.
set_nz(M, value) ==
  [M EXCEPT !.registers.P = modify_z(modify_n(@, value), value)]

\* cmp_flags with the carry set only when the register is greater.
cmp_flags_carry_when_greater(register, fetched_memory) ==
  LET sub == (register - fetched_memory + U8) % U8
      last_bit == (sub \div 128) = 1
  IN IF register < fetched_memory THEN <<last_bit, FALSE, FALSE>>
     ELSE IF register = fetched_memory THEN <<FALSE, TRUE, FALSE>>
     ELSE <<last_bit, FALSE, TRUE>>

\* CPU::exec_cmp: the flags (N, Z, C) of the comparison.
cmp_flags(register, fetched_memory) ==
  LET sub == (register - fetched_memory + U8) % U8
      last_bit == (sub \div 128) = 1
  IN IF register < fetched_memory THEN <<last_bit, FALSE, FALSE>>
     ELSE IF register = fetched_memory THEN <<FALSE, TRUE, TRUE>>
     ELSE <<last_bit, FALSE, TRUE>>

\* CPU::exec_cmp
exec_cmp(M, addrmode, register) ==
  Bind(fetch_memory(M, addrmode), LAMBDA m1 :
  SetFlag(SetFlag(SetFlag(m1,
    NEGATIVE, cmp_flags(register, m1.ret)[1]),
    ZERO, cmp_flags(register, m1.ret)[2]),
    CARRY, cmp_flags(register, m1.ret)[3]))

----------------------------------------------------------------------------
(* cpu/cpu.rs: execute_instruction, one operator for each arm of the match. *)

\* A register written together with N and Z.
SetReg(M, reg, value) ==
  set_nz([M EXCEPT !.registers[reg] = value], value)

\* exec_load with LDY writing X.
exec_load_ldy_into_x(M, instr, addrmode) ==
  Bind(fetch_memory(M, addrmode), LAMBDA m1 :
  IF instr = "LDX" THEN SetReg(m1, "X", m1.ret)
  ELSE IF instr = "LDY" THEN SetReg(m1, "X", m1.ret)
  ELSE SetReg(m1, "A", m1.ret))

\* LDX | LDY | LDA
exec_load(M, instr, addrmode) ==
  Bind(fetch_memory(M, addrmode), LAMBDA m1 :
  IF instr = "LDX" THEN SetReg(m1, "X", m1.ret)
  ELSE IF instr = "LDY" THEN SetReg(m1, "Y", m1.ret)
  ELSE SetReg(m1, "A", m1.ret))

\* PLA
exec_pla(M) ==
  Bind(pop_stack(M), LAMBDA m1 : SetReg(m1, "A", m1.ret))

\* adc_result without the carry-in.
adc_result_without_carry(a, m, carry) == (a + m) % U8

\* ADC: a.overflowing_add(m), then overflowing_add(carry): the wrapped sum.
adc_result(a, m, carry) == (((a + m) % U8) + carry) % U8

\* ADC: first_addition.1 || second_addition.1
adc_new_carry(a, m, carry) ==
  (a + m >= U8) \/ (((a + m) % U8) + carry >= U8)

\* adc_new_overflow with only the case of two positive operands.
adc_new_overflow_positive_only(a, m, result) ==
  (a \div 128) = 0 /\ (m \div 128) = 0 /\ (result \div 128) = 1

\* ADC: the overflow flag from the three signs.
adc_new_overflow(a, m, result) ==
  LET is_a_negative == (a \div 128) = 1
      is_m_negative == (m \div 128) = 1
      is_result_negative == (result \div 128) = 1
  IN \/ (is_a_negative /\ is_m_negative /\ is_result_negative = FALSE)
     \/ (is_a_negative = FALSE /\ is_m_negative = FALSE /\ is_result_negative)

\* ADC: the result goes through decimal_mode when the D flag is set.
adc_decimal(M, sum) ==
  IF Flag(M, DECIMAL) THEN decimal_mode(M, sum) ELSE Ret(M, sum)

\* ADC: A, then N, Z, C and V.
adc_store(M, a, m, carry, result) ==
  SetFlag(SetFlag(SetReg(M, "A", result),
    CARRY, adc_new_carry(a, m, carry)),
    OVERFLOW, adc_new_overflow(a, m, result))

\* ADC
exec_adc(M, addrmode) ==
  Bind(fetch_memory(M, addrmode), LAMBDA m1 :
  Bind(adc_decimal(m1, adc_result(m1.registers.A, m1.ret,
                                  IF Flag(m1, CARRY) THEN 1 ELSE 0)), LAMBDA m2 :
  adc_store(m2, m1.registers.A, m1.ret, IF Flag(m1, CARRY) THEN 1 ELSE 0, m2.ret)))

\* STX | STY | STA
exec_store(M, instr, addrmode) ==
  Bind(fetch_instruction_address(M, addrmode), LAMBDA m1 :
  IF instr = "STX" THEN write_memory(m1, m1.ret, m1.registers.X)
  ELSE IF instr = "STY" THEN write_memory(m1, m1.ret, m1.registers.Y)
  ELSE write_memory(m1, m1.ret, m1.registers.A))

\* INC | DEC: the new byte.
inc_dec_result(instr, fetched_memory) ==
  IF instr = "INC" THEN (fetched_memory + 1) % U8
  ELSE (fetched_memory + U8 - 1) % U8

\* INC | DEC
exec_inc_dec(M, instr, addrmode) ==
  Bind(fetch_memory(M, addrmode), LAMBDA m1 :
  Bind(fetch_instruction_address(m1, addrmode), LAMBDA m2 :
  Bind(write_memory(m2, m2.ret, inc_dec_result(instr, m1.ret)), LAMBDA m3 :
  set_nz(m3, inc_dec_result(instr, m1.ret)))))

\* exec_jmp with the operand word as the target in both addressing modes.
exec_jmp_absolute_only(M, addrmode) ==
  Bind(read_instruction_absolute_address(M), LAMBDA m1 :
  [m1 EXCEPT !.registers.PC = m1.ret])

\* JMP
exec_jmp(M, addrmode) ==
  Bind(fetch_instruction_address(M, addrmode), LAMBDA m1 :
  [m1 EXCEPT !.registers.PC = m1.ret])

\* JSR
exec_jsr(M, addrmode) ==
  Bind(push_pc(M, 2), LAMBDA m1 :
  Bind(fetch_instruction_address(m1, addrmode), LAMBDA m2 :
  [m2 EXCEPT !.registers.PC = m2.ret]))

\* AND
exec_and(M, addrmode) ==
  Bind(fetch_memory(M, addrmode), LAMBDA m1 :
  SetReg(m1, "A", And8(m1.registers.A, m1.ret)))

\* EOR | ORA
exec_eor_ora(M, instr, addrmode) ==
  Bind(fetch_memory(M, addrmode), LAMBDA m1 :
  IF instr = "EOR" THEN SetReg(m1, "A", Xor8(m1.registers.A, m1.ret))
  ELSE SetReg(m1, "A", Or8(m1.registers.A, m1.ret)))

\* ASL | LSR: the shifted byte.
shift_result(instr, fetched_memory) ==
  IF instr = "ASL" THEN (fetched_memory * 2) % U8 ELSE fetched_memory \div 2

\* ASL | LSR: `let new_carry = (fetched_memory >> 7) == 1`, for both instructions.
shift_new_carry(instr, fetched_memory) == (fetched_memory \div 128) = 1

\* ASL | LSR: the result goes to A or back to memory.
shift_store(M, addrmode, result) ==
  IF addrmode = "ACCUMULATOR" THEN [M EXCEPT !.registers.A = result]
  ELSE Bind(fetch_instruction_address(M, addrmode), LAMBDA ma :
       write_memory(ma, ma.ret, result))

\* ASL | LSR
exec_shift(M, instr, addrmode) ==
  Bind(fetch_memory(M, addrmode), LAMBDA m1 :
  Bind(shift_store(m1, addrmode, shift_result(instr, m1.ret)), LAMBDA m2 :
  SetFlag(set_nz(m2, shift_result(instr, m1.ret)),
          CARRY, shift_new_carry(instr, m1.ret))))

\* exec_bit with V taken from bit 7 of the operand.
exec_bit_overflow_from_bit7(M, addrmode) ==
  Bind(fetch_memory(M, addrmode), LAMBDA m1 :
  [SetFlag(SetFlag(m1, NEGATIVE, (m1.ret \div 128) = 1),
           OVERFLOW, (m1.ret \div 128) = 1)
     EXCEPT !.registers.P = modify_z(@, And8(m1.registers.A, m1.ret))])

\* BIT
exec_bit(M, addrmode) ==
  Bind(fetch_memory(M, addrmode), LAMBDA m1 :
  [SetFlag(SetFlag(m1, NEGATIVE, (m1.ret \div 128) = 1),
           OVERFLOW, ((m1.ret \div 64) % 2) = 1)
     EXCEPT !.registers.P = modify_z(@, And8(m1.registers.A, m1.ret))])

\* The condition of BMI | BPL | BNE | BVC | BVS | BEQ | BCS | BCC.
branch_condition(M, instr) ==
  \/ (instr = "BMI" /\ Flag(M, NEGATIVE) = TRUE)
  \/ (instr = "BPL" /\ Flag(M, NEGATIVE) = FALSE)
  \/ (instr = "BNE" /\ Flag(M, ZERO) = FALSE)
  \/ (instr = "BVC" /\ Flag(M, OVERFLOW) = FALSE)
  \/ (instr = "BVS" /\ Flag(M, OVERFLOW) = TRUE)
  \/ (instr = "BEQ" /\ Flag(M, ZERO) = TRUE)
  \/ (instr = "BCS" /\ Flag(M, CARRY) = TRUE)
  \/ (instr = "BCC" /\ Flag(M, CARRY) = FALSE)

\* BMI | BPL | BNE | BVC | BVS | BEQ | BCS | BCC
exec_branch(M, instr) ==
  IF branch_condition(M, instr)
    THEN Bind(read_instruction_relative_address(M), LAMBDA m1 :
         [m1 EXCEPT !.registers.PC = m1.ret])
    ELSE M

\* PLP
exec_plp(M) ==
  Bind(pop_stack(M), LAMBDA m1 : [m1 EXCEPT !.registers.P = m1.ret])

\* RTI
exec_rti(M) ==
  Bind(pop_stack(M), LAMBDA m1 :
  Bind(pop_pc([m1 EXCEPT !.registers.P =
                 ProcessorStatus_set(m1.ret, BREAK,
                                     ~ProcessorStatus_get(m1.ret, BREAK))]),
       LAMBDA m2 : [m2 EXCEPT !.registers.PC = m2.ret]))

\* CPU::execute_instruction
execute_instruction(M, instr, addrmode) ==
  IF ~Running(M) THEN M
  ELSE CASE instr \in {"LDX", "LDY", "LDA"} -> exec_load(M, instr, addrmode)
    [] instr = "PHA" -> push_stack(M, M.registers.A)
    [] instr = "NOP" -> M
    [] instr = "PLA" -> exec_pla(M)
    [] instr = "SEC" -> SetFlag(M, CARRY, TRUE)
    [] instr = "CLC" -> SetFlag(M, CARRY, FALSE)
    [] instr = "SED" -> SetFlag(M, DECIMAL, TRUE)
    [] instr = "CLD" -> SetFlag(M, DECIMAL, FALSE)
    [] instr = "SEI" -> SetFlag(M, InterruptDisable, TRUE)
    [] instr = "CLI" -> SetFlag(M, InterruptDisable, FALSE)
    [] instr = "CLV" -> SetFlag(M, OVERFLOW, FALSE)
    [] instr = "ADC" -> exec_adc(M, addrmode)
    [] instr \in {"STX", "STY", "STA"} -> exec_store(M, instr, addrmode)
    [] instr = "INX" -> SetReg(M, "X", (M.registers.X + 1) % U8)
    [] instr = "INY" -> SetReg(M, "Y", (M.registers.Y + 1) % U8)
    [] instr \in {"INC", "DEC"} -> exec_inc_dec(M, instr, addrmode)
    [] instr = "JMP" -> exec_jmp(M, addrmode)
    [] instr = "JSR" -> exec_jsr(M, addrmode)
    [] instr = "CMP" -> exec_cmp(M, addrmode, M.registers.A)
    [] instr = "CPX" -> exec_cmp(M, addrmode, M.registers.X)
    [] instr = "CPY" -> exec_cmp(M, addrmode, M.registers.Y)
    [] instr = "TAX" -> SetReg(M, "X", M.registers.A)
    [] instr = "TAY" -> SetReg(M, "Y", M.registers.A)
    [] instr = "TSX" -> SetReg(M, "X", M.registers.S)
    [] instr = "TXA" -> SetReg(M, "A", M.registers.X)
    [] instr = "TXS" -> [M EXCEPT !.registers.S = M.registers.X]
    [] instr = "TYA" -> SetReg(M, "A", M.registers.Y)
    [] instr = "AND" -> exec_and(M, addrmode)
    [] instr \in {"ASL", "LSR"} -> exec_shift(M, instr, addrmode)
    [] instr = "BIT" -> exec_bit(M, addrmode)
    [] instr \in {"BMI", "BPL", "BNE", "BVC", "BVS", "BEQ", "BCS", "BCC"} ->
         exec_branch(M, instr)
    [] instr = "BRK" -> Panic(M, "todo")
    [] instr = "DEX" -> SetReg(M, "X", (M.registers.X + U8 - 1) % U8)
    [] instr = "DEY" -> SetReg(M, "Y", (M.registers.Y + U8 - 1) % U8)
    [] instr \in {"EOR", "ORA"} -> exec_eor_ora(M, instr, addrmode)
    [] instr = "PHP" -> push_p(M)
    [] instr = "PLP" -> exec_plp(M)
    [] instr = "RTI" -> exec_rti(M)
    [] instr = "ROL" -> M
    [] OTHER -> Panic(M, "not_implemented")

\* advance_pc moving past the opcode byte only.
advance_pc_opcode_only(M, instr, bytes) ==
  IF instr \in {"JMP", "JSR"} THEN M
  ELSE Bind(checked_add(M, M.registers.PC, 1, U16), LAMBDA m1 :
       [m1 EXCEPT !.registers.PC = m1.ret])

\* CPU::clock_tick: the program counter moves past the instruction unless the
\* instruction is JMP or JSR.
advance_pc(M, instr, bytes) ==
  IF instr \in {"JMP", "JSR"} THEN M
  ELSE Bind(checked_add(M, M.registers.PC, bytes, U16), LAMBDA m1 :
       [m1 EXCEPT !.registers.PC = m1.ret])

\* CPU::clock_tick: the cycle counter; neither oops class adds anything.
add_cycles(M, instr_cycles, oops_cycle) ==
  IF ~Running(M) THEN M ELSE [M EXCEPT !.cycles = @ + instr_cycles]

\* decode_opcode with the length counted without the opcode byte.
decode_opcode_operand_length(M, opcode) ==
  IF opcode \notin DocumentedOpcodes THEN Panic(M, "decode")
  ELSE Ret(M, [DecodeTable[opcode] EXCEPT ![3] = @ - 1])

\* decoder::decode_opcode; an opcode outside the table panics.
decode_opcode(M, opcode) ==
  IF opcode \notin DocumentedOpcodes THEN Panic(M, "decode")
  ELSE Ret(M, DecodeTable[opcode])

\* CPU::clock_tick after the decoder: execute, move PC, count the cycles.
run_instruction(M, instruction) ==
  add_cycles(
    advance_pc(execute_instruction(M, instruction[1], instruction[2]),
               instruction[1], instruction[3]),
    instruction[4], instruction[5])

\* CPU::clock_tick, as a function of the machine.
clock_tick(M) ==
  Bind(read_memory(M, M.registers.PC), LAMBDA m1 :
  Bind(decode_opcode([m1 EXCEPT !.opcode = m1.ret], m1.ret), LAMBDA m2 :
  run_instruction(m2, m2.ret)))

----------------------------------------------------------------------------
(* Construction: Cartridge::new_with_custom_rom, MMU::new, CPU::new. *)

\* The machine the executor works on, taken from the state.
Machine ==
  [registers |-> registers, cycles |-> cycles, lower_memory |-> lower_memory,
   ppu |-> ppu, apu |-> apu, status |-> status, ret |-> 0, opcode |-> -1,
   fetched |-> 0]

\* res_interrupt without the write of the stack pointer.
res_interrupt_keeping_stack_pointer(M) ==
  Bind(read_address_from_memory(
         [M EXCEPT !.registers.A = 0, !.registers.X = 0, !.registers.Y = 0,
                   !.registers.P = ProcessorStatus_default], 65532),
       LAMBDA m1 : [m1 EXCEPT !.registers.PC = m1.ret, !.cycles = 8])

\* CPU::res_interrupt
res_interrupt(M) ==
  Bind(read_address_from_memory(
         [M EXCEPT !.registers.A = 0, !.registers.X = 0, !.registers.Y = 0,
                   !.registers.S = 255,
                   !.registers.P = ProcessorStatus_default], 65532),
       LAMBDA m1 : [m1 EXCEPT !.registers.PC = m1.ret, !.cycles = 8])

\* The interrupt sequence nmi_interrupt and irq_interrupt share: push PC, clear
\* B, set I, push P, load PC from the vector, set the cycle counter.
service_interrupt(M, vector, interrupt_cycles) ==
  Bind(push_pc(M, 0), LAMBDA m1 :
  Bind(push_p([m1 EXCEPT !.registers.P =
                 ProcessorStatus_set(ProcessorStatus_set(@, BREAK, FALSE),
                                     InterruptDisable, TRUE)]), LAMBDA m2 :
  Bind(read_address_from_memory(m2, vector), LAMBDA m3 :
  [m3 EXCEPT !.registers.PC = m3.ret, !.cycles = interrupt_cycles])))

\* CPU::nmi_interrupt
nmi_interrupt(M) == service_interrupt(M, 65530, 8)

\* irq_interrupt without the test of the interrupt-disable flag.
irq_interrupt_unmasked(M) == service_interrupt(M, 65534, 7)

\* CPU::irq_interrupt
irq_interrupt(M) ==
  IF ProcessorStatus_get(M.registers.P, InterruptDisable) = FALSE
    THEN service_interrupt(M, 65534, 7)
    ELSE M

\* CPU::new, before its call of res_interrupt: Registers::default(), no cycles,
\* LowerMemory, PPU and APU registers all zero.
NewMachine ==
  [registers |-> [A |-> 0, X |-> 0, Y |-> 0, P |-> ProcessorStatus_default,
                  S |-> 0, PC |-> 0],
   cycles |-> 0,
   lower_memory |-> [zero_page |-> <<>>, stack |-> <<>>, ram |-> <<>>],
   ppu |-> [i \in 0..7 |-> 0],
   apu |-> <<>>,
   status |-> "running", ret |-> 0, opcode |-> -1, fetched |-> 0]

\* Cartridge::new_with_custom_rom: the 32 KiB image becomes banks 0 and 1;
\* no CHR bank.
new_with_custom_rom(rom) ==
  [num_prg_banks |-> 2, prg_banks |-> 2, prg_rom |-> rom,
   num_chr_banks |-> 0, chr_banks |-> 0, chr_rom |-> <<>>]

----------------------------------------------------------------------------
(* rom_parser.rs.  A file is its length and its non-zero bytes by offset.  *)
(* The parser is threaded like the machine: `status` is "running" or the   *)
(* kind of the panic that rejected the file.                               *)

ChrBankSize == 8192

\* No file: the machine was built from a PRG block.
NoFile == [len |-> 0, bytes |-> <<>>]

\* contents[from..to], by offset from `from`.
Slice(contents, from, to) ==
  [i \in {j - from : j \in {k \in DOMAIN contents.bytes : from <= k /\ k < to}}
     |-> contents.bytes[i + from]]

\* RomParser::new: Header::default(), no banks.
RomParser_new ==
  [status |-> "running",
   header |-> [prg_rom_size |-> 0, chr_rom_size |-> 0, mapper |-> 0,
               mirroring |-> "HORIZONTAL", battery_prg_ram |-> FALSE,
               trainer |-> FALSE, prg_ram_size |-> 0],
   prg_banks |-> 0, prg_rom |-> <<>>, chr_banks |-> 0, chr_rom |-> <<>>]

\* parse_header without the assertion on the reserved bits of flags 9.
parse_header_without_flags9_check(P, contents) ==
  LET b(i) == ArrayGet(contents.bytes, i)
      mapper == Or8((b(7) \div 16) * 16, b(6) \div 16)
  IN IF contents.len < 4 THEN Panic(P, "truncated")
     ELSE IF <<b(0), b(1), b(2), b(3)>> # <<78, 69, 83, 26>> THEN Panic(P, "magic")
     ELSE IF contents.len < 11 THEN Panic(P, "truncated")
     ELSE IF (b(7) \div 4) % 4 = 2 THEN Panic(P, "nes2_format")
     ELSE IF mapper # 0 THEN Panic(P, "mapper")
     ELSE IF contents.len < 16 THEN Panic(P, "truncated")
     ELSE IF <<b(11), b(12), b(13), b(14), b(15)>> # <<0, 0, 0, 0, 0>>
       THEN Panic(P, "padding")
     ELSE [P EXCEPT !.header =
             [prg_rom_size |-> b(4), chr_rom_size |-> b(5), mapper |-> mapper,
              mirroring |-> IF Bit(b(6), 0) = 1 THEN "VERTICAL" ELSE "HORIZONTAL",
              battery_prg_ram |-> Bit(b(6), 1) = 1,
              trainer |-> Bit(b(6), 2) = 1,
              prg_ram_size |-> b(8)]]

\* RomParser::parse_header: the magic, the NES 2.0 marker, the reserved bits
\* of byte 9, the mapper, the header, the padding, in this order.
parse_header(P, contents) ==
  LET b(i) == ArrayGet(contents.bytes, i)
      mapper == Or8((b(7) \div 16) * 16, b(6) \div 16)
  IN IF contents.len < 4 THEN Panic(P, "truncated")
     ELSE IF <<b(0), b(1), b(2), b(3)>> # <<78, 69, 83, 26>> THEN Panic(P, "magic")
     ELSE IF contents.len < 11 THEN Panic(P, "truncated")
     ELSE IF (b(7) \div 4) % 4 = 2 THEN Panic(P, "nes2_format")
     ELSE IF b(9) \div 2 # 0 THEN Panic(P, "flags9")
     ELSE IF mapper # 0 THEN Panic(P, "mapper")
     ELSE IF contents.len < 16 THEN Panic(P, "truncated")
     ELSE IF <<b(11), b(12), b(13), b(14), b(15)>> # <<0, 0, 0, 0, 0>>
       THEN Panic(P, "padding")
     ELSE [P EXCEPT !.header =
             [prg_rom_size |-> b(4), chr_rom_size |-> b(5), mapper |-> mapper,
              mirroring |-> IF Bit(b(6), 0) = 1 THEN "VERTICAL" ELSE "HORIZONTAL",
              battery_prg_ram |-> Bit(b(6), 1) = 1,
              trainer |-> Bit(b(6), 2) = 1,
              prg_ram_size |-> b(8)]]

\* RomParser::parse_prg_rom: contents[16..16 + 16 KiB * prg_rom_size], cut
\* into banks; prg_rom holds bank k at k * PrgBankSize.
parse_prg_rom(P, contents) ==
  LET prg_rom_size_bytes == PrgBankSize * P.header.prg_rom_size
  IN IF contents.len < 16 + prg_rom_size_bytes THEN Panic(P, "truncated")
     ELSE [P EXCEPT !.prg_rom = Slice(contents, 16, 16 + prg_rom_size_bytes),
                    !.prg_banks = prg_rom_size_bytes \div PrgBankSize]

\* RomParser::parse_chr_rom: the rest of the file must have the size of the
\* CHR banks, 8 KiB when the header counts none; chr_rom holds bank j at
\* j * ChrBankSize.
parse_chr_rom(P, contents) ==
  LET prg_rom_size_bytes == PrgBankSize * P.header.prg_rom_size
      chr_rom_bytes == IF P.header.chr_rom_size = 0 THEN ChrBankSize
                       ELSE ChrBankSize * P.header.chr_rom_size
  IN IF contents.len - (16 + prg_rom_size_bytes) # chr_rom_bytes
       THEN Panic(P, "chr_size")
     ELSE [P EXCEPT !.chr_rom = Slice(contents, 16 + prg_rom_size_bytes, contents.len),
                    !.chr_banks = chr_rom_bytes \div ChrBankSize]

\* RomParser::parse, on the bytes fs::read returned.
parse(contents) ==
  Bind(parse_header(RomParser_new, contents), LAMBDA p1 :
  Bind(parse_prg_rom(p1, contents), LAMBDA p2 :
  parse_chr_rom(p2, contents)))

\* Cartridge::new_with_parser
new_with_parser(rom_parser) ==
  [num_prg_banks |-> rom_parser.header.prg_rom_size,
   prg_banks |-> rom_parser.prg_banks, prg_rom |-> rom_parser.prg_rom,
   num_chr_banks |-> rom_parser.header.chr_rom_size,
   chr_banks |-> rom_parser.chr_banks, chr_rom |-> rom_parser.chr_rom]

\* MMU::new with the default bank numbers for every cartridge.
MMU_new_without_mirroring(cart) ==
  [active_prgbank_number_lower |-> 0, active_prgbank_number_upper |-> 1]

\* MMU::new
MMU_new(cart) ==
  IF cart.num_prg_banks = 1
    THEN [active_prgbank_number_lower |-> 0, active_prgbank_number_upper |-> 0]
    ELSE [active_prgbank_number_lower |-> 0, active_prgbank_number_upper |-> 1]

\* What `last` holds: the operation, the opcode it decoded (-1: none), the
\* decoded instruction, addressing mode and length, the byte fetch_memory
\* returned, and the state the operation started from.
LastOf(op, opcode, fetched) ==
  [op |-> op, opcode |-> opcode,
   instr |-> IF opcode \in DocumentedOpcodes THEN DecodeTable[opcode][1] ELSE "none",
   addrmode |-> IF opcode \in DocumentedOpcodes THEN DecodeTable[opcode][2] ELSE "none",
   bytes |-> IF opcode \in DocumentedOpcodes THEN DecodeTable[opcode][3] ELSE 0,
   fetched |-> fetched,
   registers |-> registers, cycles |-> cycles, lower_memory |-> lower_memory,
   ppu |-> ppu, apu |-> apu]

\* The state holds the machine M.
StateIs(M) ==
  /\ registers = M.registers
  /\ cycles = M.cycles
  /\ lower_memory = M.lower_memory
  /\ ppu = M.ppu
  /\ apu = M.apu
  /\ status = M.status

\* NES::new(cartridge) in a build with or without overflow checks.
NES_new(cart, checks) ==
  /\ cartridge = cart
  /\ mmu = MMU_new(cartridge)
  /\ overflow_checks = checks
  /\ StateIs(res_interrupt(NewMachine))
  /\ last = [op |-> "res_interrupt", opcode |-> -1, instr |-> "none",
             addrmode |-> "none", bytes |-> 0, fetched |-> 0,
             registers |-> NewMachine.registers, cycles |-> 0,
             lower_memory |-> NewMachine.lower_memory,
             ppu |-> NewMachine.ppu, apu |-> NewMachine.apu]

\* NES::new_custom_prg_rom(rom)
InitWith(rom, checks) ==
  /\ rom_file = NoFile
  /\ NES_new(new_with_custom_rom(rom), checks)

\* The parser panicked: no cartridge, no CPU; the state holds what the
\* parser had read and a CPU before its reset.
ParseFailed(P, checks) ==
  /\ cartridge = new_with_parser(P)
  /\ mmu = MMU_new(cartridge)
  /\ overflow_checks = checks
  /\ StateIs([NewMachine EXCEPT !.status = P.status])
  /\ last = [op |-> "parse", opcode |-> -1, instr |-> "none",
             addrmode |-> "none", bytes |-> 0, fetched |-> 0,
             registers |-> NewMachine.registers, cycles |-> 0,
             lower_memory |-> NewMachine.lower_memory,
             ppu |-> NewMachine.ppu, apu |-> NewMachine.apu]

\* NES::new_open_rom_file on a file with the bytes `contents`.
InitParsed(contents, checks) ==
  /\ rom_file = contents
  /\ IF Running(parse(contents))
       THEN NES_new(new_with_parser(parse(contents)), checks)
       ELSE ParseFailed(parse(contents), checks)

----------------------------------------------------------------------------
(* PRG images.  An image is the non-zero bytes of the 32 KiB block, by     *)
(* offset from 0x8000.                                                     *)

\* The bytes `code` placed at CPU address org.
Segment(org, code) ==
  [i \in (org - 32768)..(org - 32768 + Len(code) - 1) |-> code[i - (org - 32768) + 1]]

\* The reset vector at 0xFFFC/0xFFFD pointing at org.
ResetVector(org) == (32764 :> (org % 256)) @@ (32765 :> (org \div 256))

\* An image that starts running `code` at org.
Image(org, code) == ResetVector(org) @@ Segment(org, code)

----------------------------------------------------------------------------
(* The action. *)

\* The next state holds the machine M that the operation `op` left.
Commit(M, op) ==
  /\ registers' = M.registers
  /\ cycles' = M.cycles
  /\ lower_memory' = M.lower_memory
  /\ ppu' = M.ppu
  /\ apu' = M.apu
  /\ status' = M.status
  /\ last' = LastOf(op, M.opcode, M.fetched)

\* One call of CPU::clock_tick.
ClockTick ==
  /\ status = "running"
  /\ cycles < MaxCycles
  /\ Commit(clock_tick(Machine), "clock_tick")
  /\ UNCHANGED <<rom_file, cartridge, mmu, overflow_checks>>

\* One call of CPU::nmi_interrupt.
NmiInterrupt ==
  /\ status = "running"
  /\ Commit(nmi_interrupt(Machine), "nmi_interrupt")
  /\ UNCHANGED <<rom_file, cartridge, mmu, overflow_checks>>

\* One call of CPU::irq_interrupt.
IrqInterrupt ==
  /\ status = "running"
  /\ Commit(irq_interrupt(Machine), "irq_interrupt")
  /\ UNCHANGED <<rom_file, cartridge, mmu, overflow_checks>>

Next == ClockTick \/ NmiInterrupt \/ IrqInterrupt

----------------------------------------------------------------------------
(* Specification Spec: every opcode byte, run after one of two preambles.  *)

\* LDA #$85; STA $10; LDX #$01; LDY #$02; SEC
Preamble == <<169, 133, 133, 16, 162, 1, 160, 2, 56>>

Preambles == {<<>>, Preamble}

\* First and second operand bytes of the instruction under test.
Operands1 == {16, 15, 254, 255}
Operands2 == {0, 32, 64, 128}

\* LDA #$85; STA $2000; JMP ($2000): a jump through the PPU window.
PpuPrograms == {<<169, 133, 141, 0, 32, 108, 0, 32>>}

Programs ==
  {pre \o <<opcode, b1, b2>> :
     pre \in Preambles, opcode \in 0..255, b1 \in Operands1, b2 \in Operands2}
  \cup PpuPrograms

Init ==
  \E code \in Programs, checks \in BOOLEAN : InitWith(Image(32768, code), checks)

Spec == Init /\ [][Next]_vars

----------------------------------------------------------------------------
(* Specification SpecBranch: the eight branches, with every flag they test *)
(* both ways, at 0x8000 with every operand byte, and at the two ends of    *)
(* the address space with the operands that wrap.                          *)

\* BPL, BMI, BVC, BVS, BCC, BCS, BNE, BEQ
BranchOpcodes == {16, 48, 80, 112, 144, 176, 208, 240}

\* CLC; LDA #$01  |  SEC; LDA #$00  |  LDA #$7F; ADC #$01
FlagPreambles == {<<24, 169, 1>>, <<56, 169, 0>>, <<169, 127, 105, 1>>}

WrapOperands == {0, 1, 10, 11, 12, 127, 128, 254, 255}

\* The branch as the next instruction of a program at org.
BranchAt(org, operands) ==
  {Image(org, pre \o <<opcode, operand>>) :
     pre \in FlagPreambles, opcode \in BranchOpcodes, operand \in operands}

\* The branch stored at 0x0000 and reached by JMP $0000:
\* LDA #opcode; STA $00; LDA #operand; STA $01; flags; JMP $0000
BranchInZeroPage ==
  {Image(32768, <<169, opcode, 133, 0, 169, operand, 133, 1>> \o pre \o <<76, 0, 0>>) :
     pre \in FlagPreambles, opcode \in BranchOpcodes, operand \in WrapOperands}

BranchImages ==
  BranchAt(32768, 0..255) \cup BranchAt(65520, WrapOperands) \cup BranchInZeroPage

InitBranch ==
  \E rom \in BranchImages, checks \in BOOLEAN : InitWith(rom, checks)

SpecBranch == InitBranch /\ [][Next]_vars

----------------------------------------------------------------------------
(* Specification SpecAlu: ADC, SBC, LSR, ROL and ROR on chosen accumulator *)
(* and operand bytes, with the carry and decimal flags both ways.  Every   *)
(* program keeps the operand byte m at $10 and, for the immediate modes,   *)
(* in the instruction.                                                     *)

AluBytes == {0, 1, 9, 10, 11, 40, 80, 99, 127, 128, 129, 192, 254, 255}

AluFewBytes == {1, 40, 128, 255}

\* ADC in its eight addressing modes.
AdcOpcodes == {105, 101, 117, 109, 125, 121, 97, 113}

\* SBC in its eight addressing modes.
SbcOpcodes == {233, 229, 245, 237, 253, 249, 225, 241}

\* LSR in its five addressing modes.
LsrOpcodes == {74, 70, 86, 78, 94}

\* ROL and ROR in their five addressing modes.
RolOpcodes == {42, 38, 54, 46, 62}
RorOpcodes == {106, 102, 118, 110, 126}

\* The instruction under test: its operand is m itself or the address $0010.
AluInstruction(opcode, m) ==
  IF DecodeTable[opcode][2] = "IMMEDIATE" THEN <<opcode, m>>
  ELSE IF DecodeTable[opcode][3] = 1 THEN <<opcode>>
  ELSE IF DecodeTable[opcode][3] = 2 THEN <<opcode, 16>>
  ELSE <<opcode, 16, 0>>

\* SED or CLD; SEC or CLC; LDA #m; STA $10; LDA #a; the instruction.
AluProgram(d, c, m, a, opcode) ==
  <<IF d THEN 248 ELSE 216, IF c THEN 56 ELSE 24, 169, m, 133, 16, 169, a>>
    \o AluInstruction(opcode, m)

\* SEI; LDA #$7F; ADC #$01: leaves I, V and N set before the program.
DirtyFlags == <<120, 169, 127, 105, 1>>

AluPrograms ==
  {AluProgram(d, c, m, a, 105) :
     d \in BOOLEAN, c \in BOOLEAN, m \in AluBytes, a \in AluBytes}
  \cup
  {DirtyFlags \o AluProgram(d, c, m, a, 105) :
     d \in BOOLEAN, c \in BOOLEAN, m \in AluFewBytes, a \in AluFewBytes}
  \cup
  {AluProgram(dc[1], dc[2], ma[1], ma[2], opcode) :
     dc \in BOOLEAN \X BOOLEAN, ma \in AluFewBytes \X AluFewBytes,
     opcode \in AdcOpcodes \cup SbcOpcodes \cup LsrOpcodes
                  \cup RolOpcodes \cup RorOpcodes}
  \cup
  {AluProgram(FALSE, c, v, v, opcode) :
     c \in BOOLEAN, v \in 0..255, opcode \in {74, 70}}

InitAlu ==
  \E code \in AluPrograms, checks \in BOOLEAN : InitWith(Image(32768, code), checks)

SpecAlu == InitAlu /\ [][Next]_vars

----------------------------------------------------------------------------
(* Specification SpecReg: the compares, BIT and the loads on chosen        *)
(* register and operand bytes, after all of C, I, D, V clear or all set.   *)
(* The operand byte m is at $10 and, for the immediate modes, in the       *)
(* instruction.                                                            *)

\* CMP in its eight addressing modes, CPX and CPY in their three.
CmpOpcodes == {201, 197, 213, 205, 221, 217, 193, 209}
CpxOpcodes == {224, 228, 236}
CpyOpcodes == {192, 196, 204}

\* BIT zero page and absolute.
BitOpcodes == {36, 44}

\* LDA in its eight addressing modes, LDX and LDY in their five.
LdaOpcodes == {169, 165, 181, 173, 189, 185, 161, 177}
LdxOpcodes == {162, 166, 182, 174, 190}
LdyOpcodes == {160, 164, 180, 172, 188}

\* SEI; LDA #$7F; ADC #$01; SEC; SED: leaves I, V, C and D set.
AllFlagsSet == DirtyFlags \o <<56, 248>>

FlagPrefixes == {<<>>, AllFlagsSet}

\* LDX #r for CPX, LDY #r for CPY, LDA #r for every other instruction.
LoadRegister(opcode, r) ==
  IF opcode \in CpxOpcodes THEN <<162, r>>
  ELSE IF opcode \in CpyOpcodes THEN <<160, r>>
  ELSE <<169, r>>

\* flags; LDA #m; STA $10; the register := r; the instruction.
RegProgram(pre, m, r, opcode) ==
  pre \o <<169, m, 133, 16>> \o LoadRegister(opcode, r) \o AluInstruction(opcode, m)

\* flags; LDA #$07; LDX #$03; LDY #$05; the immediate load of v.
LoadProgram(pre, opcode, v) == pre \o <<169, 7, 162, 3, 160, 5, opcode, v>>

RegPrograms ==
  {RegProgram(pre, mr[1], mr[2], opcode) :
     pre \in FlagPrefixes, mr \in AluBytes \X AluBytes, opcode \in {201, 224, 192, 36}}
  \cup
  {RegProgram(<<>>, mr[1], mr[2], opcode) :
     mr \in AluFewBytes \X AluFewBytes,
     opcode \in CmpOpcodes \cup CpxOpcodes \cup CpyOpcodes \cup BitOpcodes
                  \cup LdaOpcodes \cup LdxOpcodes \cup LdyOpcodes}
  \cup
  {LoadProgram(pre, opcode, v) :
     pre \in FlagPrefixes, opcode \in {169, 162, 160}, v \in 0..255}

InitReg ==
  \E code \in RegPrograms, checks \in BOOLEAN : InitWith(Image(32768, code), checks)

SpecReg == InitReg /\ [][Next]_vars

----------------------------------------------------------------------------
(* Specification SpecMem: a store to and two loads from chosen addresses   *)
(* of every region of the CPU address space, and the stack instructions at *)
(* chosen stack pointers.                                                  *)

\* 0x0010, 0x00FE, 0x00FF, 0x0100, 0x01FF, 0x0200, 0x07FF, 0x0810, 0x1810,
\* 0x2000, 0x2002, 0x2003, 0x2007, 0x2008, 0x200A, 0x20AB, 0x3FFF,
\* 0x4000, 0x4016, 0x4017, 0x4018, 0x7FFF, 0x8000
MemAddresses ==
  {16, 254, 255, 256, 511, 512, 2047, 2064, 6160,
   8192, 8194, 8195, 8199, 8200, 8202, 8363, 16383,
   16384, 16406, 16407, 16408, 24576, 32767, 32768, 49152, 65535}

MemBytes == {0, 1, 127, 128, 255}

\* LDA #v; STA w; LDX r; LDY r
MemProgram(v, w, r) ==
  <<169, v, 141, w % 256, w \div 256, 174, r % 256, r \div 256,
    172, r % 256, r \div 256>>

StackPointers == {0, 1, 127, 254, 255}

\* PHA, PHP, PLA, PLP
StackOpcodes == {72, 8, 104, 40}

\* LDX #s; TXS; LDA #v; the stack instruction, twice.
StackProgram(s, v, opcode) == <<162, s, 154, 169, v, opcode, opcode>>

MemPrograms ==
  {MemProgram(v, w, r) : v \in MemBytes, w \in MemAddresses, r \in MemAddresses}
  \cup
  {StackProgram(s, v, opcode) :
     s \in StackPointers, v \in MemBytes, opcode \in StackOpcodes}

InitMem ==
  \E code \in MemPrograms, checks \in BOOLEAN : InitWith(Image(32768, code), checks)

SpecMem == InitMem /\ [][Next]_vars

----------------------------------------------------------------------------
(* Cartridges read from a file, with one, two or three PRG banks.  Every   *)
(* bank holds the same program and reset vector, and probe bytes that tell *)
(* the bank and the offset.                                                *)

BankCounts == {1, 2, 3}

ProbeOffsets == {256, 4096, 16379}

\* The probe byte of bank k at offset o: non-zero, and different for every
\* bank and offset.
ProbeByte(k, o) == ((o \div 256) + (37 * k) + 1) % 256

\* Bank k: the probes, `code` at the offset of org, the reset vector.
BankContents(k, org, code) ==
  LET base == k * PrgBankSize
      start == base + (org % PrgBankSize)
  IN (base + 16380 :> (org % 256)) @@ (base + 16381 :> (org \div 256))
     @@ [i \in start..(start + Len(code) - 1) |-> code[i - start + 1]]
     @@ [i \in {base + o : o \in ProbeOffsets} |-> ProbeByte(k, i - base)]

\* The banks 0..n-1 the parser cuts out of the file.
RECURSIVE ParsedBanks(_, _, _)
ParsedBanks(n, org, code) ==
  IF n = 1 THEN BankContents(0, org, code)
  ELSE ParsedBanks(n - 1, org, code) @@ BankContents(n - 1, org, code)

\* The non-zero bytes of a byte sequence, by offset.
Sparse(seq) == [i \in {j \in 0..(Len(seq) - 1) : seq[j + 1] # 0} |-> seq[i + 1]]

\* The function f moved up by `by` offsets.
Shift(f, by) == [i \in {j + by : j \in DOMAIN f} |-> f[i - by]]

\* The sixteen header bytes of an iNES file.
HeaderBytes(prg, chr, flags6, flags7, flags8, flags9, flags10) ==
  <<78, 69, 83, 26, prg, chr, flags6, flags7, flags8, flags9, flags10,
    0, 0, 0, 0, 0>>

\* A file of n PRG banks and one CHR bank of zeros.
BankFile(n, org, code) ==
  [len |-> 16 + (n * PrgBankSize) + ChrBankSize,
   bytes |-> Sparse(HeaderBytes(n, 1, 0, 0, 0, 0, 0))
               @@ Shift(ParsedBanks(n, org, code), 16)]

BankOrigins == {32768, 32800, 49152, 49184}

\* LDA lo; LDX hi; LDY lo2: one load from the lower half, one from the upper
\* half, one more from the lower half.
BankProgram(o1, o2) ==
  <<173, o1 % 256, (32768 + o1) \div 256,
    174, o2 % 256, (49152 + o2) \div 256,
    172, o2 % 256, (32768 + o2) \div 256>>

InitBank ==
  \E n \in BankCounts, org \in BankOrigins, o1 \in ProbeOffsets,
     o2 \in ProbeOffsets, checks \in BOOLEAN :
    InitParsed(BankFile(n, org, BankProgram(o1, o2)), checks)

SpecBank == InitBank /\ [][Next]_vars

----------------------------------------------------------------------------
(* Specification SpecDecode: every opcode byte as the first instruction.   *)

OpcodeBytes == 0..255

\* The opcode with operand bytes $10 $00.
InitDecode ==
  \E opcode \in OpcodeBytes, checks \in BOOLEAN :
    InitWith(Image(32768, <<opcode, 16, 0>>), checks)

SpecDecode == InitDecode /\ [][Next]_vars

----------------------------------------------------------------------------
(* Specification SpecParser: iNES files with good and bad headers, of the  *)
(* length the header gives and of other lengths.                           *)

MagicBytes == {78, 77}
PrgCounts == {1, 2}
ChrCounts == {0, 1, 2}
\* flags6: nothing; vertical mirroring and trainer; mapper 1
Flags6Bytes == {0, 5, 16}
\* flags7: nothing; NES 2.0; format bits 3; mapper 16
Flags7Bytes == {0, 8, 12, 16}
Flags8Bytes == {0, 255}
Flags9Bytes == {0, 1, 2}
Flags10Bytes == {0, 255}
\* The padding byte that is set to 1, 0 for none.
PaddingDefects == {0, 11, 15}
\* The length of the file less the length the header gives.
LengthDeltas == {-1, 0, 1, 8192}

\* The byte of a file at offset i behind the header: non-zero, by the offset.
FillByte(i) == (i % 251) + 1

\* The offsets behind the header that carry a byte: the first and last byte
\* of every 8 KiB block and the last byte of the file.
FilledOffsets(len) ==
  {i \in {16 + (k * ChrBankSize) + o : k \in 0..6, o \in {0, ChrBankSize - 1}}
        \cup {len - 1} : 16 <= i /\ i < len}

ParserFile(magic, prg, chr, flags6, flags7, flags8, flags9, flags10, pad, delta) ==
  LET len == 16 + (prg * PrgBankSize) + (chr * ChrBankSize) + delta
      header == [HeaderBytes(prg, chr, flags6, flags7, flags8, flags9, flags10)
                   EXCEPT ![1] = magic]
  IN [len |-> len,
      bytes |-> Sparse(IF pad = 0 THEN header ELSE [header EXCEPT ![pad + 1] = 1])
                  @@ [i \in FilledOffsets(len) |-> FillByte(i)]]

\* The first ShortLengths bytes of a good header.
ShortLengths == {0, 3, 10, 12}

ShortFile(len) ==
  [len |-> len,
   bytes |-> Sparse(SubSeq(HeaderBytes(1, 1, 0, 0, 0, 0, 0), 1, len))]

ParserFiles ==
  {ParserFile(magic, prg, chr, flags6, flags7, flags8, flags9, flags10, pad, delta) :
     magic \in MagicBytes, prg \in PrgCounts, chr \in ChrCounts,
     flags6 \in Flags6Bytes, flags7 \in Flags7Bytes, flags8 \in Flags8Bytes,
     flags9 \in Flags9Bytes, flags10 \in Flags10Bytes, pad \in PaddingDefects,
     delta \in LengthDeltas}
  \cup {ShortFile(len) : len \in ShortLengths}

InitParser ==
  \E contents \in ParserFiles, checks \in BOOLEAN : InitParsed(contents, checks)

SpecParser == InitParser /\ [][Next]_vars


----------------------------------------------------------------------------
(* Specification SpecIndex: the loads and stores of the indexed addressing *)
(* modes, at operands and indexes that wrap the zero page and the address  *)
(* space, with the carry clear and set.                                    *)

\* LDA zp,X; LDY zp,X; LDX zp,Y; STA zp,X; STY zp,X; STX zp,Y;
\* LDA abs,X; LDA abs,Y; LDY abs,X; LDX abs,Y; STA abs,X; STA abs,Y
IndexedOpcodes == {181, 180, 182, 149, 148, 150, 189, 185, 188, 190, 157, 153}

IndexValues == {0, 1, 255}
IndexOperands1 == {11, 16, 255}
IndexOperands2 == {0, 128, 255}

\* CLC, SEC
CarryOpcodes == {24, 56}

\* LDA #$5A; STA $0A; LDA #$C3; STA $0C; LDX #x; LDY #y; CLC or SEC;
\* LDA #$77; the instruction.
IndexProgram(x, y, carry, opcode, b1, b2) ==
  <<169, 90, 133, 10, 169, 195, 133, 12, 162, x, 160, y, carry, 169, 119,
    opcode, b1, b2>>

IndexPrograms ==
  {IndexProgram(x, y, carry, opcode, b1, b2) :
     x \in IndexValues, y \in IndexValues, carry \in CarryOpcodes,
     opcode \in IndexedOpcodes, b1 \in IndexOperands1, b2 \in IndexOperands2}

InitIndex ==
  \E code \in IndexPrograms, checks \in BOOLEAN : InitWith(Image(32768, code), checks)

SpecIndex == InitIndex /\ [][Next]_vars
----------------------------------------------------------------------------
(* What the properties read from a state. *)

\* The last operation was a tick, and it returned.
TickDone == last.op = "clock_tick" /\ status = "running"

\* The last operation was a tick that decoded `instr`, returned or not.
TickOf(instr) == last.op = "clock_tick" /\ last.instr = instr

\* A flag as it was before the last operation, and as it is now.
FlagBefore(bit) == Bit(last.registers.P, bit) = 1
FlagNow(bit) == Bit(registers.P, bit) = 1

\* The machine as it was before the last operation.
Before ==
  [Machine EXCEPT !.registers = last.registers, !.cycles = last.cycles,
                  !.lower_memory = last.lower_memory, !.ppu = last.ppu,
                  !.apu = last.apu, !.status = "running"]

\* The byte a read of addr returned before the last operation, and returns now.
Peek(addr) == read_memory(Before, addr).ret
PeekNow(addr) == read_memory(Machine, addr).ret

\* The little-endian word at addr before the last operation.
Peek16(addr) == Peek(addr) + 256 * Peek((addr + 1) % U16)

\* The effective address of the last instruction's operand, by the addressing
\* mode the decoder gave it, from the state before the tick.
OperandAddress ==
  LET pc1 == (last.registers.PC + 1) % U16
  IN CASE last.addrmode = "IMMEDIATE" -> pc1
       [] last.addrmode = "ZEROPAGE" -> Peek(pc1)
       [] last.addrmode = "ZEROPAGEX" -> (Peek(pc1) + last.registers.X) % U8
       [] last.addrmode = "ZEROPAGEY" -> (Peek(pc1) + last.registers.Y) % U8
       [] last.addrmode = "ABSOLUTE" -> Peek16(pc1)
       [] last.addrmode = "ABSOLUTEX" -> (Peek16(pc1) + last.registers.X) % U16
       [] last.addrmode = "ABSOLUTEY" -> (Peek16(pc1) + last.registers.Y) % U16
       [] last.addrmode = "INDIRECTX" ->
            Peek16((Peek(pc1) + last.registers.X) % U8)
       [] last.addrmode = "INDIRECTY" ->
            (Peek16(Peek(pc1)) + last.registers.Y) % U16

\* The operand byte of the last instruction before the tick, and the byte at
\* the same place now.
Operand ==
  IF last.addrmode = "ACCUMULATOR" THEN last.registers.A ELSE Peek(OperandAddress)
OperandNow ==
  IF last.addrmode = "ACCUMULATOR" THEN registers.A ELSE PeekNow(OperandAddress)

BranchInstructions == {"BCC", "BCS", "BEQ", "BNE", "BMI", "BPL", "BVC", "BVS"}

\* The last instruction was a branch whose condition held before the tick.
BranchTaken ==
  \/ last.instr = "BCC" /\ ~FlagBefore(CARRY)
  \/ last.instr = "BCS" /\ FlagBefore(CARRY)
  \/ last.instr = "BEQ" /\ FlagBefore(ZERO)
  \/ last.instr = "BNE" /\ ~FlagBefore(ZERO)
  \/ last.instr = "BMI" /\ FlagBefore(NEGATIVE)
  \/ last.instr = "BPL" /\ ~FlagBefore(NEGATIVE)
  \/ last.instr = "BVC" /\ ~FlagBefore(OVERFLOW)
  \/ last.instr = "BVS" /\ FlagBefore(OVERFLOW)

ControlTransfer ==
  last.instr \in {"JMP", "JSR", "RTS", "RTI", "BRK"} \/ BranchTaken

----------------------------------------------------------------------------
(* C1 *)

----------------------------------------------------------------------------
(* C2 *)

----------------------------------------------------------------------------
(* C3, C4, C5: the stack page *)

\* The byte of the stack page at 0x0100 + s.
StackByte(s) == ArrayGet(lower_memory.stack, s % U8)

\* C3: a tick executing JSR at p with operand t returns, having stored the high
\* byte of p+2 at 0x0100+S and the low byte at 0x0100+S-1, with S two lower
\* and PC = t.
C3_JsrPushesReturnAddress ==
  TickOf("JSR")
    => /\ status = "running"
       /\ registers.S = (last.registers.S + U8 - 2) % U8
       /\ registers.PC = Peek16((last.registers.PC + 1) % U16)
       /\ StackByte(last.registers.S) = ((last.registers.PC + 2) % U16) \div 256
       /\ StackByte(last.registers.S + U8 - 1) = ((last.registers.PC + 2) % U16) % 256

\* C4: a tick executing RTS (0x60) returns, having pulled low then high, with
\* S two higher and PC one past the pulled address, which after a JSR at p is
\* p + 3.
C4_RtsReturnsPastJsr ==
  TickOf("RTS")
    => /\ status = "running"
       /\ registers.S = (last.registers.S + 2) % U8
       /\ registers.PC =
            (StackByte(last.registers.S + 1) + 256 * StackByte(last.registers.S + 2)
               + 1) % U16

\* C5: a tick executing RTI returns, having pulled P, PC low and PC high, with
\* S three higher, PC the pulled address and P the pulled byte with B inverted.
C5_RtiRestores ==
  TickOf("RTI")
    => /\ status = "running"
       /\ registers.S = (last.registers.S + 3) % U8
       /\ registers.P =
            ProcessorStatus_set(StackByte(last.registers.S + 1), BREAK,
                                Bit(StackByte(last.registers.S + 1), BREAK) = 0)
       /\ registers.PC =
            StackByte(last.registers.S + 2) + 256 * StackByte(last.registers.S + 3)

----------------------------------------------------------------------------
(* C6 *)

\* The operand word of the last instruction.
OperandWord == Peek16((last.registers.PC + 1) % U16)

PpuWindow == 8192..8199

\* C6: after a tick that returns from JMP, PC is the operand word (absolute)
\* or the word stored at the operand word (indirect), little-endian, and A, X,
\* Y, S, P, the zero page, stack and RAM and the APU registers are as before;
\* the PPU registers are as before unless the indirect pointer was read
\* through the PPU window.
C6_JmpTarget ==
  (TickDone /\ last.instr = "JMP")
    => /\ registers.PC =
            IF last.addrmode = "ABSOLUTE" THEN OperandWord ELSE Peek16(OperandWord)
       /\ registers = [last.registers EXCEPT !.PC = registers.PC]
       /\ lower_memory = last.lower_memory
       /\ apu = last.apu
       /\ \/ ppu = last.ppu
          \/ /\ last.addrmode = "INDIRECT"
             /\ {OperandWord, (OperandWord + 1) % U16} \cap PpuWindow # {}

\* An indirect jump through $0010 has gone to the word stored there.
C6_Witness ==
  /\ TickDone
  /\ last.instr = "JMP" /\ last.addrmode = "INDIRECT"
  /\ OperandWord = 16
  /\ registers.PC = 133

----------------------------------------------------------------------------
(* C7, C8, C9: ADC and SBC *)

CarryIn == IF FlagBefore(CARRY) THEN 1 ELSE 0

\* a + m + c_in of the last instruction.
AdcSum == last.registers.A + Operand + CarryIn

\* The byte decimal mode makes of a sum between 10 and 99: its two decimal
\* digits as hex digits.
DecimalDigits(r) == 16 * (r \div 10) + (r % 10)

SignedOverflow(a, m, r) == Bit(And8(255 - Xor8(a, m), Xor8(a, r)), 7) = 1

\* V, N and Z are the flags of the addition of a and m with result r.
AdcFlagsOf(a, m, r) ==
  /\ FlagNow(OVERFLOW) = SignedOverflow(a, m, r)
  /\ FlagNow(NEGATIVE) = (Bit(r, 7) = 1)
  /\ FlagNow(ZERO) = (r = 0)

SbcSum == last.registers.A + (255 - Operand) + CarryIn

\* C9: a tick executing SBC returns with A = (a + (255 - m) + C) mod 256,
\* the carry flag = (a + (255 - m) + C >= 256), and V, N, Z as ADC sets them
\* for the operand 255 - m.
C9_Sbc ==
  TickOf("SBC")
    => /\ status = "running"
       /\ registers.A = SbcSum % U8
       /\ FlagNow(CARRY) = (SbcSum >= U8)
       /\ AdcFlagsOf(last.registers.A, 255 - Operand, SbcSum % U8)

----------------------------------------------------------------------------
(* C10 *)

\* C10: after a tick that returns from LSR on the byte v, the byte is v >> 1,
\* C is the old bit 0 of v, N is clear and Z = (v >> 1 = 0).
C10_Lsr ==
  (TickDone /\ last.instr = "LSR")
    => /\ OperandNow = Operand \div 2
       /\ FlagNow(CARRY) = (Bit(Operand, 0) = 1)
       /\ ~FlagNow(NEGATIVE)
       /\ FlagNow(ZERO) = (Operand \div 2 = 0)

\* What the LSR arm does: C is the old bit 7 of v.
C10_LsrCarryFromBit7 ==
  (TickDone /\ last.instr = "LSR")
    => /\ OperandNow = Operand \div 2
       /\ FlagNow(CARRY) = (Bit(Operand, 7) = 1)
       /\ ~FlagNow(NEGATIVE)
       /\ FlagNow(ZERO) = (Operand \div 2 = 0)

----------------------------------------------------------------------------
(* C11 *)

\* C11: a tick executing ROL on the byte v with carry-in c returns with the
\* byte ((v << 1) mod 256) OR c and C = old bit 7 of v; a tick executing ROR
\* returns with the byte (v >> 1) OR (c << 7) and C = old bit 0 of v; N and Z
\* are those of the new byte, which is in A or at the operand's address.
C11_Rotate ==
  (TickOf("ROL") \/ TickOf("ROR"))
    => /\ status = "running"
       /\ OperandNow =
            IF last.instr = "ROL" THEN ((Operand * 2) % U8) + CarryIn
            ELSE (Operand \div 2) + (128 * CarryIn)
       /\ FlagNow(CARRY) =
            IF last.instr = "ROL" THEN Bit(Operand, 7) = 1 ELSE Bit(Operand, 0) = 1
       /\ FlagNow(NEGATIVE) = (Bit(OperandNow, 7) = 1)
       /\ FlagNow(ZERO) = (OperandNow = 0)

\* What the ROL arm does: the tick changes nothing but PC and the cycles.
C11_RolChangesNothing ==
  (TickDone /\ last.instr = "ROL")
    => /\ registers = [last.registers EXCEPT !.PC = registers.PC]
       /\ lower_memory = last.lower_memory

\* What the executor does with ROR: the tick never returns.
C11_RorPanics == TickOf("ROR") => status = "not_implemented"

----------------------------------------------------------------------------
(* C12 *)

\* The register the last instruction compares with its operand.
ComparedRegister ==
  IF last.instr = "CPX" THEN last.registers.X
  ELSE IF last.instr = "CPY" THEN last.registers.Y
  ELSE last.registers.A

\* The zero page, stack and RAM and the APU registers are as before the tick,
\* and so are the PPU registers unless the operand was read through the PPU
\* window.
MemoryUnchanged ==
  /\ lower_memory = last.lower_memory
  /\ apu = last.apu
  /\ ppu = last.ppu \/ OperandAddress \in PpuWindow

\* Nothing but PC and the flags in `bits` differs from before the tick.
OnlyFlagsChanged(bits) ==
  /\ registers = [last.registers EXCEPT !.PC = registers.PC, !.P = registers.P]
  /\ \A b \in (0..7) \ bits : FlagNow(b) = FlagBefore(b)
  /\ MemoryUnchanged

\* C12: after a tick that returns from CMP, CPX or CPY with register value r
\* and operand m, C = (r >= m), Z = (r = m), N = bit 7 of (r - m) mod 256,
\* and A, X, Y, S, the other flags and memory are as before.
C12_Compare ==
  (TickDone /\ last.instr \in {"CMP", "CPX", "CPY"})
    => /\ FlagNow(CARRY) = (ComparedRegister >= Operand)
       /\ FlagNow(ZERO) = (ComparedRegister = Operand)
       /\ FlagNow(NEGATIVE) = (Bit((ComparedRegister - Operand + U8) % U8, 7) = 1)
       /\ OnlyFlagsChanged({CARRY, ZERO, NEGATIVE})

\* CPX with X = 0x01 against 0xFF has cleared C and Z and left N clear
\* (0x01 - 0xFF = 0x02), with V still set from before.
C12_Witness ==
  /\ TickDone
  /\ last.instr = "CPX"
  /\ last.registers.X = 1 /\ Operand = 255
  /\ ~FlagNow(CARRY) /\ ~FlagNow(ZERO) /\ ~FlagNow(NEGATIVE)
  /\ FlagNow(OVERFLOW)

----------------------------------------------------------------------------
(* C13 *)

\* C13: after a tick that returns from BIT with accumulator a and operand m,
\* N = bit 7 of m, V = bit 6 of m, Z = ((a AND m) = 0), and A, X, Y, S, the
\* other flags and memory are as before.
C13_Bit ==
  (TickDone /\ last.instr = "BIT")
    => /\ FlagNow(NEGATIVE) = (Bit(Operand, 7) = 1)
       /\ FlagNow(OVERFLOW) = (Bit(Operand, 6) = 1)
       /\ FlagNow(ZERO) = (And8(last.registers.A, Operand) = 0)
       /\ OnlyFlagsChanged({NEGATIVE, OVERFLOW, ZERO})

\* BIT of 0xC0 with A = 0x01 has set N, V and Z and kept A and the carry.
C13_Witness ==
  /\ TickDone
  /\ last.instr = "BIT"
  /\ last.registers.A = 1 /\ Operand = 192
  /\ FlagNow(NEGATIVE) /\ FlagNow(OVERFLOW) /\ FlagNow(ZERO)
  /\ registers.A = 1 /\ FlagNow(CARRY)

----------------------------------------------------------------------------
(* C14 *)

\* The register the last load instruction writes.
LoadedRegister ==
  IF last.instr = "LDX" THEN "X" ELSE IF last.instr = "LDY" THEN "Y" ELSE "A"

\* C14: after a tick that returns from LDA, LDX or LDY with operand v, the
\* target register is v, N = bit 7 of v, Z = (v = 0), and the other two of
\* A, X, Y, S, the other flags and memory are as before.
C14_Load ==
  (TickDone /\ last.instr \in {"LDA", "LDX", "LDY"})
    => /\ registers[LoadedRegister] = Operand
       /\ FlagNow(NEGATIVE) = (And8(Operand, 128) # 0)
       /\ FlagNow(ZERO) = (Operand = 0)
       /\ registers = [last.registers EXCEPT !.PC = registers.PC,
                                             !.P = registers.P,
                                             ![LoadedRegister] = Operand]
       /\ \A b \in (0..7) \ {NEGATIVE, ZERO} : FlagNow(b) = FlagBefore(b)
       /\ MemoryUnchanged

\* LDY #$80 with C, I, D and V set has left Y = 0x80, N set, Z clear, the four
\* flags set, and A and X as loaded before.
C14_Witness ==
  /\ TickDone
  /\ last.instr = "LDY" /\ last.addrmode = "IMMEDIATE"
  /\ Operand = 128 /\ registers.Y = 128
  /\ FlagNow(NEGATIVE) /\ ~FlagNow(ZERO)
  /\ FlagNow(CARRY) /\ FlagNow(InterruptDisable) /\ FlagNow(DECIMAL) /\ FlagNow(OVERFLOW)
  /\ registers.A = 7 /\ registers.X = 3

----------------------------------------------------------------------------
(* C15 *)

\* The byte of the stack page at 0x0100 + s before the last operation.
StackByteBefore(s) == ArrayGet(last.lower_memory.stack, s % U8)

\* C15: a tick executing a push (PHA, PHP) returns, having written the byte at
\* 0x0100+S and set S to (S-1) mod 256; a tick executing a pull (PLA, PLP)
\* returns, having set S to (S+1) mod 256 and read the byte at 0x0100+S for
\* the new S; neither panics, whatever S is.
C15_StackWraps ==
  /\ (TickOf("PHA") \/ TickOf("PHP"))
       => /\ status = "running"
          /\ registers.S = (last.registers.S + U8 - 1) % U8
          /\ TickOf("PHA") => StackByte(last.registers.S) = last.registers.A
  /\ (TickOf("PLA") \/ TickOf("PLP"))
       => /\ status = "running"
          /\ registers.S = (last.registers.S + 1) % U8
          /\ TickOf("PLA") => registers.A = StackByteBefore(last.registers.S + 1)

\* What the code does: no tick that executes a stack instruction returns.
C15_StackPanics ==
  (TickOf("PHA") \/ TickOf("PHP") \/ TickOf("PLA") \/ TickOf("PLP"))
    => status = "todo"

----------------------------------------------------------------------------
(* C16 *)

\* A read of addr now returns v and does not panic.
ReadsNow(addr, v) ==
  Running(read_memory(Machine, addr)) /\ PeekNow(addr) = v

\* A read of addr before the last operation did not panic.
ReadableBefore(addr) == Running(read_memory(Before, addr))

\* The last operation was a tick that decoded an absolute store or load.
AbsoluteStore == TickOf("STA") /\ last.addrmode = "ABSOLUTE"
AbsoluteLoad ==
  last.op = "clock_tick" /\ last.instr \in {"LDA", "LDX", "LDY"}
    /\ last.addrmode = "ABSOLUTE"

RamMirrors == 0..8191

\* C16: a tick that loads from an address a in 0x0000..0x1FFF returns with the
\* byte a read of (a mod 0x0800) returned before it; after a tick that stores
\* to a, a read of (a mod 0x0800) returns the stored byte.
C16_RamMirrored ==
  /\ (AbsoluteLoad /\ OperandAddress \in RamMirrors)
       => /\ status = "running"
          /\ ReadableBefore(OperandAddress % 2048)
          /\ registers[LoadedRegister] = Peek(OperandAddress % 2048)
  /\ (AbsoluteStore /\ OperandAddress \in RamMirrors)
       => /\ status = "running"
          /\ ReadsNow(OperandAddress % 2048, last.registers.A)

\* What the code does: loads and stores in 0x0100..0x1FFF never return.
C16_AboveZeroPagePanics ==
  ((AbsoluteLoad \/ AbsoluteStore) /\ OperandAddress \in 256..8191)
    => status = "todo"

----------------------------------------------------------------------------
(* C17 *)

PpuMirrors == 8192..16383

\* The PPU register index of an address of the PPU region.
PpuIndex(addr) == (addr - 8192) % 8

\* C17: a tick that stores to an address a in 0x2000..0x3FFF returns with the
\* stored byte in PPU register (a - 0x2000) mod 8 and the other registers as
\* before; a tick that loads from a returns with the byte that register held.
C17_PpuMirrored ==
  /\ (AbsoluteStore /\ OperandAddress \in PpuMirrors)
       => /\ status = "running"
          /\ ppu = [last.ppu EXCEPT ![PpuIndex(OperandAddress)] = last.registers.A]
  /\ (AbsoluteLoad /\ OperandAddress \in PpuMirrors)
       => /\ status = "running"
          /\ registers[LoadedRegister] = last.ppu[PpuIndex(OperandAddress)]

\* What the code does: the eight addresses 0x2000..0x2007 are forwarded, and
\* no access to 0x2008..0x3FFF returns.
C17_OnlyFirstEightForwarded ==
  /\ ((AbsoluteLoad \/ AbsoluteStore) /\ OperandAddress \in PpuWindow)
       => /\ status = "running"
          /\ AbsoluteStore => ppu[PpuIndex(OperandAddress)] = last.registers.A
          /\ AbsoluteLoad
               => registers[LoadedRegister] = last.ppu[PpuIndex(OperandAddress)]
  /\ ((AbsoluteLoad \/ AbsoluteStore) /\ OperandAddress \in PpuMirrors \ PpuWindow)
       => status = "todo"

----------------------------------------------------------------------------
(* C18 *)

\* The instruction before the last one in the program text was LDX $2002.
AfterLdxOfPpuStatus ==
  /\ Peek((last.registers.PC + U16 - 3) % U16) = 174
  /\ Peek16((last.registers.PC + U16 - 2) % U16) = 8194

\* C18: a tick that loads from 0x2002 returns the byte PPU register 2 held
\* before the tick and leaves the register with bit 7 cleared and the other
\* seven registers as they were; a second load right after the first returns
\* the first byte with bit 7 cleared.
C18_PpuStatusRead ==
  (TickDone /\ AbsoluteLoad /\ OperandAddress = 8194)
    => /\ registers[LoadedRegister] = last.ppu[2]
       /\ ppu = [last.ppu EXCEPT ![2] = last.ppu[2] % 128]
       /\ (last.instr = "LDY" /\ AfterLdxOfPpuStatus)
            => registers.Y = registers.X % 128

\* 0xFF was stored to 0x2002; the first load returned 0xFF, the second 0x7F.
C18_Witness ==
  /\ TickDone /\ AbsoluteLoad /\ OperandAddress = 8194
  /\ last.instr = "LDY" /\ AfterLdxOfPpuStatus
  /\ registers.X = 255 /\ registers.Y = 127
  /\ ppu[2] = 127

----------------------------------------------------------------------------
(* C19 *)

CpuRam == 0..2047

\* The checked addresses of CPU RAM other than addr read as before the tick.
OtherRamUntouched(addr) ==
  \A b \in (MemAddresses \cap CpuRam) \ {addr} :
    ReadableBefore(b) => ReadsNow(b, Peek(b))

\* C19: a tick that stores to an address a in 0x0000..0x07FF returns, a read
\* of a then returns the stored byte, and nothing else is written.
C19_RamBacked ==
  (AbsoluteStore /\ OperandAddress \in CpuRam)
    => /\ status = "running"
       /\ ReadsNow(OperandAddress, last.registers.A)
       /\ OtherRamUntouched(OperandAddress)
       /\ ppu = last.ppu /\ apu = last.apu

\* What the code does: the first 255 bytes are backed by zero_page, the store
\* to 0x00FF indexes past the end of the array, and no store above returns.
C19_OnlyZeroPageBacked ==
  /\ (AbsoluteStore /\ OperandAddress \in 0..(ZeroPageLen - 1))
       => /\ status = "running"
          /\ ReadsNow(OperandAddress, last.registers.A)
          /\ lower_memory = [last.lower_memory EXCEPT
               !.zero_page = ArrayPut(@, OperandAddress, last.registers.A)]
          /\ ppu = last.ppu /\ apu = last.apu
  /\ (AbsoluteStore /\ OperandAddress = ZeroPageLen) => status = "index"
  /\ (AbsoluteStore /\ OperandAddress \in CpuRam /\ OperandAddress > ZeroPageLen)
       => status = "todo"

----------------------------------------------------------------------------
(* C20 *)

ApuWindow == 16384..16407

\* C20: a tick that stores to an address a in 0x4000..0x4017 returns with the
\* stored byte in APU register a - 0x4000 and the other APU registers, the CPU
\* RAM and the PPU registers as they were.
C20_ApuWrite ==
  (AbsoluteStore /\ OperandAddress \in ApuWindow)
    => /\ status = "running"
       /\ apu = ArrayPut(last.apu, OperandAddress - 16384, last.registers.A)
       /\ lower_memory = last.lower_memory
       /\ ppu = last.ppu

\* What the code does: the 23 registers of 0x4000..0x4016 are written, and the
\* store to 0x4017 indexes past the end of the array.
C20_LastRegisterMissing ==
  /\ (AbsoluteStore /\ OperandAddress \in ApuWindow
        /\ OperandAddress - 16384 < ApuRegistersLen)
       => /\ status = "running"
          /\ apu = ArrayPut(last.apu, OperandAddress - 16384, last.registers.A)
          /\ lower_memory = last.lower_memory
          /\ ppu = last.ppu
  /\ (AbsoluteStore /\ OperandAddress - 16384 = ApuRegistersLen)
       => status = "index"

----------------------------------------------------------------------------
(* C21 *)

PrgWindow == 32768..65535

\* C21: a tick that stores to an address in 0x8000..0xFFFF returns, and the
\* addresses of the PRG window still read the bytes of the cartridge.
C21_PrgWriteIgnored ==
  (AbsoluteStore /\ OperandAddress \in PrgWindow)
    => /\ status = "running"
       /\ \A a \in MemAddresses \cap PrgWindow : ReadsNow(a, Peek(a))

\* What the code does: no store to the PRG window returns.
C21_PrgWritePanics ==
  (AbsoluteStore /\ OperandAddress \in PrgWindow) => status = "todo"

----------------------------------------------------------------------------
(* C22 *)

ExpansionArea == 16408..32767

\* C22: a tick that loads from an address in 0x4018..0x7FFF returns with 0 in
\* the register; a tick that stores to one returns and changes no memory, no
\* device register and no CPU register but PC.
C22_ExpansionArea ==
  /\ (AbsoluteLoad /\ OperandAddress \in ExpansionArea)
       => /\ status = "running"
          /\ registers[LoadedRegister] = 0
          /\ MemoryUnchanged
  /\ (AbsoluteStore /\ OperandAddress \in ExpansionArea)
       => /\ status = "running"
          /\ MemoryUnchanged
          /\ registers = [last.registers EXCEPT !.PC = registers.PC]

\* What the code does: no access to the expansion area returns.
C22_ExpansionAreaPanics ==
  ((AbsoluteLoad \/ AbsoluteStore) /\ OperandAddress \in ExpansionArea)
    => status = "todo"

----------------------------------------------------------------------------
(* C23 *)

\* The byte of the cartridge's PRG bank `bank` at `offset`.
PrgByte(bank, offset) == ArrayGet(cartridge.prg_rom, (bank * PrgBankSize) + offset)

\* The bank number the claim gives for the upper half; the lower half has 0.
UpperBank == IF cartridge.num_prg_banks = 1 THEN 0 ELSE 1

\* C23: in every state the MMU holds lower_bank = 0 and upper_bank = 0 for a
\* cartridge of one PRG bank, 1 otherwise, both banks of the cartridge; a tick
\* that loads from a in 0x8000..0xBFFF returns PRG[lower_bank][a - 0x8000], one
\* that loads from a in 0xC000..0xFFFF returns PRG[upper_bank][a - 0xC000];
\* with one bank the two halves read the same; no read ends at a missing bank.
C23_BankSelection ==
  /\ mmu.active_prgbank_number_lower = 0
  /\ mmu.active_prgbank_number_upper = UpperBank
  /\ mmu.active_prgbank_number_lower < cartridge.prg_banks
  /\ mmu.active_prgbank_number_upper < cartridge.prg_banks
  /\ status # "expect"
  /\ (AbsoluteLoad /\ OperandAddress \in 32768..49151)
       => /\ status = "running"
          /\ registers[LoadedRegister] = PrgByte(0, OperandAddress - 32768)
  /\ (AbsoluteLoad /\ OperandAddress \in 49152..65535)
       => /\ status = "running"
          /\ registers[LoadedRegister] = PrgByte(UpperBank, OperandAddress - 49152)
  /\ cartridge.num_prg_banks = 1
       => \A o \in ProbeOffsets \cup {0, 16380, 16381} :
            /\ ReadableBefore(32768 + o) /\ ReadableBefore(49152 + o)
            /\ Peek(32768 + o) = Peek(49152 + o)

\* One bank: the load from the upper half returned the probe of bank 0 that
\* the load from the lower half returned.
C23_Witness ==
  /\ TickDone /\ TickOf("LDX") /\ AbsoluteLoad
  /\ cartridge.num_prg_banks = 1
  /\ OperandAddress = 49152 + 4096
  /\ registers.X = ProbeByte(0, 4096)
  /\ registers.A = registers.X

\* Two banks: the load from the upper half returned the probe of bank 1.
C23_WitnessTwoBanks ==
  /\ TickDone /\ TickOf("LDX") /\ AbsoluteLoad
  /\ cartridge.num_prg_banks = 2
  /\ OperandAddress = 49152 + 4096
  /\ registers.X = ProbeByte(1, 4096)
  /\ registers.A = ProbeByte(0, 4096)

----------------------------------------------------------------------------
(* C24 *)

\* C24: the state construction leaves, its reset having returned, has
\* A = X = Y = 0, S = 0xFF, P = 0x20, PC the little-endian word at 0xFFFC and
\* the cycle counter 8 above what it was.
C24_Reset ==
  (last.op = "res_interrupt" /\ status = "running")
    => /\ registers.A = 0 /\ registers.X = 0 /\ registers.Y = 0
       /\ registers.S = 255
       /\ registers.P = 32
       /\ registers.PC = Peek(65532) + (256 * Peek(65533))
       /\ cycles = last.cycles + 8

\* The machine of a one-bank cartridge whose vector points into the upper half.
C24_Witness ==
  /\ last.op = "res_interrupt" /\ status = "running"
  /\ cartridge.num_prg_banks = 1
  /\ registers.PC = 49184 /\ registers.S = 255 /\ cycles = 8

----------------------------------------------------------------------------
(* C25 *)

\* The last operation was an interrupt that the code services: an NMI, or an
\* IRQ raised with I clear.
Serviced ==
  \/ last.op = "nmi_interrupt"
  \/ last.op = "irq_interrupt" /\ ~FlagBefore(InterruptDisable)

\* The vector and the cycles of the last interrupt.
InterruptVector == IF last.op = "nmi_interrupt" THEN 65530 ELSE 65534
InterruptCycles == IF last.op = "nmi_interrupt" THEN 8 ELSE 7

\* C25: a serviced interrupt returns with PC high, PC low and the status byte
\* (B clear, I set) on the stack from the old S downwards, I set, PC the
\* little-endian word at the vector and the cycle counter 8 (NMI) or 7 (IRQ)
\* above what it was; no operation lowers the cycle counter.
C25_InterruptSequence ==
  /\ Serviced
       => /\ status = "running"
          /\ StackByte(last.registers.S) = last.registers.PC \div 256
          /\ StackByte(last.registers.S + U8 - 1) = last.registers.PC % 256
          /\ StackByte(last.registers.S + U8 - 2) = registers.P
          /\ registers.S = (last.registers.S + U8 - 3) % U8
          /\ registers.P =
               ProcessorStatus_set(ProcessorStatus_set(last.registers.P, BREAK, FALSE),
                                   InterruptDisable, TRUE)
          /\ registers.PC = Peek16(InterruptVector)
          /\ cycles = last.cycles + InterruptCycles
  /\ cycles >= last.cycles

\* What the code does: the first push of a serviced interrupt does not return.
C25_ServicedInterruptPanics == Serviced => status = "todo"

----------------------------------------------------------------------------
(* C26 *)

\* C26: an IRQ raised with I set returns and leaves the registers, the cycle
\* counter, the CPU memory and the device registers as they were.
C26_MaskedIrqIgnored ==
  (last.op = "irq_interrupt" /\ FlagBefore(InterruptDisable))
    => /\ status = "running"
       /\ registers = last.registers
       /\ cycles = last.cycles
       /\ lower_memory = last.lower_memory
       /\ ppu = last.ppu
       /\ apu = last.apu

\* An IRQ ignored after SEI and a store to the zero page.
C26_Witness ==
  /\ last.op = "irq_interrupt" /\ FlagBefore(InterruptDisable)
  /\ status = "running"
  /\ registers.P = last.registers.P /\ FlagNow(InterruptDisable)
  /\ lower_memory.zero_page # <<>>
  /\ cycles > 8

----------------------------------------------------------------------------
(* C27 *)

----------------------------------------------------------------------------
(* C28 *)

\* The record the decoder returns for an opcode byte it accepts.
Decoded(opcode) == decode_opcode(NewMachine, opcode).ret

\* The opcode bytes the decoder accepts.
Accepted == {opcode \in 0..255 : Running(decode_opcode(NewMachine, opcode))}

\* C28: for every opcode byte the decoder accepts the length is 1, 2 or 3 and
\* the base cycles are 2..7; the record depends on the byte alone; the tick
\* decodes the byte at PC, and a tick that returns adds the base cycles.
C28_DecodedRecord ==
  /\ \A opcode \in Accepted :
       /\ Decoded(opcode)[3] \in {1, 2, 3}
       /\ Decoded(opcode)[4] \in 2..7
       /\ Decoded(opcode) = decode_opcode(Before, opcode).ret
  /\ (last.op = "clock_tick" /\ last.opcode \in Accepted)
       => /\ last.opcode = Peek(last.registers.PC)
          /\ last.bytes = Decoded(last.opcode)[3]
          /\ TickDone => cycles - last.cycles = Decoded(last.opcode)[4]

\* The tick decoded INC abs,X: three bytes, seven cycles.
C28_Witness ==
  /\ TickDone /\ last.opcode = 254
  /\ last.bytes = 3
  /\ cycles - last.cycles = 7

----------------------------------------------------------------------------
(* C29 *)

ReadingInstructions == {"ORA", "AND", "EOR", "ADC", "LDA", "LDX", "LDY", "CMP", "SBC"}

\* The decoded instruction reads through an indexed mode that can cross a page.
IndexedRead(opcode) ==
  /\ Decoded(opcode)[1] \in ReadingInstructions
  /\ Decoded(opcode)[2] \in {"ABSOLUTEX", "ABSOLUTEY", "INDIRECTY"}

\* The oops class the claim gives the opcode, where it gives one.
OopsClassHolds(opcode) ==
  /\ IndexedRead(opcode) => Decoded(opcode)[5] = "PageBoundryCrossed"
  /\ Decoded(opcode)[2] = "RELATIVE" => Decoded(opcode)[5] = "BranchOccursOn"

\* C29: a tick that decodes an indexed read decodes it with the oops class
\* PageBoundryCrossed, and one that decodes a branch with BranchOccursOn.
C29_OopsClass ==
  (last.op = "clock_tick" /\ last.opcode \in Accepted) => OopsClassHolds(last.opcode)

\* What the code does: the class is as claimed for every opcode but 0x51,
\* EOR (zp),Y, which decodes with the class of the branches.
C29_AllButEorIndirectY ==
  /\ \A opcode \in Accepted \ {81} : OopsClassHolds(opcode)
  /\ IndexedRead(81) /\ Decoded(81)[5] = "BranchOccursOn"

----------------------------------------------------------------------------
(* C30 *)

\* C30: a tick executing BRK at p returns with the high and the low byte of
\* p + 2 and the status byte with B set on the stack from the old S downwards,
\* S three lower, I set and PC the little-endian word at 0xFFFE.
C30_Brk ==
  TickOf("BRK")
    => /\ status = "running"
       /\ StackByte(last.registers.S) = ((last.registers.PC + 2) % U16) \div 256
       /\ StackByte(last.registers.S + U8 - 1) = ((last.registers.PC + 2) % U16) % 256
       /\ StackByte(last.registers.S + U8 - 2)
            = ProcessorStatus_set(last.registers.P, BREAK, TRUE)
       /\ registers.S = (last.registers.S + U8 - 3) % U8
       /\ FlagNow(InterruptDisable)
       /\ registers.PC = Peek16(65534)

\* What the code does: the BRK arm does not return and changes nothing.
C30_BrkPanics ==
  TickOf("BRK")
    => /\ status = "todo"
       /\ registers = last.registers
       /\ lower_memory = last.lower_memory

----------------------------------------------------------------------------
(* C31 *)

\* How a tick ends when the executor does not handle what the decoder
\* returned: the default arm of execute_instruction, the default arm of
\* fetch_memory, the IMPLIED arm of fetch_memory.
UnsupportedKinds == {"not_implemented", "addressing_mode", "implied"}

\* The last operation was a tick on an opcode the decoder accepts.
TickOnAccepted == last.op = "clock_tick" /\ last.opcode \in Accepted

\* C31: no tick on an opcode the decoder accepts ends in the executor's
\* 'not implemented' or unsupported-addressing-mode error.
C31_ExecutorCoversTable == TickOnAccepted => status \notin UnsupportedKinds

IndirectIndexedModes == {"INDIRECTX", "INDIRECTY"}
UnwrittenModes == {"ZEROPAGEX", "ZEROPAGEY", "INDIRECTX", "INDIRECTY"}
UnimplementedInstructions == {"RTS", "ROR", "SBC"}
AddressedInstructions == {"STA", "STX", "STY", "ASL", "LSR", "INC", "DEC"}

\* What the code does: RTS, ROR and SBC end in the default arm of the
\* executor; every read through (zp,X) or (zp),Y ends in the default arm of
\* fetch_memory; every instruction that computes an address through zp,X,
\* zp,Y, (zp,X) or (zp),Y fails, in the default arm of
\* fetch_instruction_address when it gets that far.
C31_UnsupportedPairs ==
  TickOnAccepted
    => /\ status = "not_implemented" <=> last.instr \in UnimplementedInstructions
       /\ status = "addressing_mode"
            <=> /\ last.addrmode \in IndirectIndexedModes
                /\ last.instr \notin UnimplementedInstructions \cup {"STA"}
       /\ (last.instr \in AddressedInstructions /\ last.addrmode \in UnwrittenModes)
            => status # "running"
       /\ status # "implied"

----------------------------------------------------------------------------
(* C32 *)

\* The byte of the file at offset i.
FileByte(i) == ArrayGet(rom_file.bytes, i)

\* The machine was built from a file that holds a whole header.
HasHeader == rom_file # NoFile /\ rom_file.len >= 16

\* How the parser ends when it rejects a file, in the header and behind it.
HeaderRejections == {"magic", "nes2_format", "flags9", "mapper", "padding"}
ParserRejections == HeaderRejections \cup {"truncated", "chr_size"}

\* The mapper number of the header.
HeaderMapper == Or8(And8(FileByte(7), 240), FileByte(6) \div 16)

\* The defects the claim lists.
HeaderDefect ==
  \/ <<FileByte(0), FileByte(1), FileByte(2), FileByte(3)>> # <<78, 69, 83, 26>>
  \/ \E i \in 11..15 : FileByte(i) # 0
  \/ (FileByte(7) \div 4) % 4 = 2
  \/ HeaderMapper # 0

\* C32: the header of a file is rejected exactly when it has one of the
\* listed defects, whatever bytes 8, 9 and 10 are.
C32_HeaderRejection ==
  HasHeader => (status \in HeaderRejections <=> HeaderDefect)

\* C32, as the code has it: the header is rejected exactly when it has one of
\* the listed defects or byte 9 has one of its reserved bits 1..7 set; bytes 8
\* and 10, and bit 0 of byte 9, do not matter.
C32_RejectsReservedBits ==
  HasHeader
    => (status \in HeaderRejections <=> (HeaderDefect \/ FileByte(9) \div 2 # 0))

\* A header without any of the listed defects is rejected for byte 9.
C32_Witness ==
  /\ HasHeader /\ ~HeaderDefect
  /\ FileByte(9) = 2 /\ FileByte(8) = 255 /\ FileByte(10) = 255
  /\ status = "flags9"

----------------------------------------------------------------------------
(* C33 *)

\* A header the parser accepts, without trainer.
WellFormedHeader ==
  /\ HasHeader /\ ~HeaderDefect /\ FileByte(9) \div 2 = 0
  /\ Bit(FileByte(6), 2) = 0

\* The length the header gives the file.
HeaderLength == 16 + (PrgBankSize * FileByte(4)) + (ChrBankSize * FileByte(5))

\* C33: a well-formed file with CHR count 0 and length 16 + 16384 * prg_banks is
\* accepted and gives prg_banks PRG banks and one CHR bank of zeros.
C33_NoChrBank ==
  (WellFormedHeader /\ FileByte(5) = 0 /\ rom_file.len = HeaderLength)
    => /\ status \notin ParserRejections
       /\ cartridge.prg_banks = FileByte(4)
       /\ cartridge.chr_banks = 1
       /\ cartridge.chr_rom = <<>>

\* What the code does: with CHR count 0 it accepts the file exactly when 8 KiB
\* follow the PRG banks, and these bytes become the CHR bank.
C33_NoChrBankNeedsBytes ==
  (WellFormedHeader /\ FileByte(5) = 0)
    => /\ status \notin ParserRejections <=> rom_file.len = HeaderLength + ChrBankSize
       /\ rom_file.len = HeaderLength => status = "chr_size"
       /\ status \notin ParserRejections
            => /\ cartridge.chr_banks = 1
               /\ cartridge.chr_rom = Slice(rom_file, HeaderLength, rom_file.len)
               /\ cartridge.chr_rom # <<>>

----------------------------------------------------------------------------
(* C34 *)

\* The file the banks of the cartridge give back behind the header.
Serialised ==
  [len |-> 16 + (PrgBankSize * cartridge.prg_banks) + (ChrBankSize * cartridge.chr_banks),
   bytes |-> Slice(rom_file, 0, 16)
               @@ Shift(cartridge.prg_rom, 16)
               @@ Shift(cartridge.chr_rom, 16 + (PrgBankSize * cartridge.prg_banks))]

\* The banks are the bytes of the file, in order.
BanksAreSlices ==
  /\ cartridge.prg_banks = FileByte(4)
  /\ cartridge.prg_rom = Slice(rom_file, 16, 16 + (PrgBankSize * FileByte(4)))
  /\ cartridge.chr_rom = Slice(rom_file, 16 + (PrgBankSize * FileByte(4)), rom_file.len)
  /\ Serialised = rom_file

\* C34: of a well-formed file without trainer, an accepted one has its bytes
\* in the PRG banks and then the CHR banks, in order, so that header and banks
\* give the file back; one whose length is not 16 + 16384 * prg_banks +
\* 8192 * chr_banks is rejected.
C34_RoundTrip ==
  WellFormedHeader
    => /\ status \notin ParserRejections
            => BanksAreSlices /\ cartridge.chr_banks = FileByte(5)
       /\ rom_file.len # HeaderLength => status \in ParserRejections

\* What the code does: the same, but for CHR count 0, where the length it
\* asks for is 8 KiB more and the cartridge gets one CHR bank.
C34_RoundTripButNoChr ==
  WellFormedHeader
    => /\ status \notin ParserRejections => BanksAreSlices
       /\ FileByte(5) # 0
            => /\ status \notin ParserRejections => cartridge.chr_banks = FileByte(5)
               /\ status \in ParserRejections <=> rom_file.len # HeaderLength
       /\ FileByte(5) = 0
            => status \in ParserRejections <=> rom_file.len # HeaderLength + ChrBankSize

----------------------------------------------------------------------------
(* C35 *)

\* The six flags PLP takes from the stack.
PulledFlags == {CARRY, ZERO, InterruptDisable, DECIMAL, OVERFLOW, NEGATIVE}

\* C35: a tick executing PLP returns with C, Z, I, D, V, N as in the pulled
\* byte and with bits 4 and 5 of P as they were, whatever the pulled byte has
\* there.
C35_PlpIgnoresBreak ==
  TickOf("PLP")
    => /\ status = "running"
       /\ \A bit \in PulledFlags :
            FlagNow(bit) <=> Bit(StackByteBefore(last.registers.S + 1), bit) = 1
       /\ FlagNow(BREAK) <=> FlagBefore(BREAK)
       /\ FlagNow(UNUSED) <=> FlagBefore(UNUSED)

\* What the code does: the pull of PLP never returns, and P stays as it was.
C35_PlpPanics ==
  TickOf("PLP") => status = "todo" /\ registers = last.registers

----------------------------------------------------------------------------
(* C36 *)

\* The 256-byte page of an address.
Page(addr) == addr \div 256

\* The last instruction indexed an absolute base address into another page.
PageCrossed ==
  /\ last.addrmode \in {"ABSOLUTEX", "ABSOLUTEY"}
  /\ Page(OperandAddress) # Page(OperandWord)

\* The cycles the claim adds to the base cycles of the last instruction.
OopsPenalty ==
  LET oops_cycle == Decoded(last.opcode)[5]
      next_pc == (last.registers.PC + 2) % U16
  IN IF oops_cycle = "PageBoundryCrossed" /\ PageCrossed THEN 1
     ELSE IF oops_cycle = "BranchOccursOn" /\ BranchTaken
       THEN IF Page(registers.PC) = Page(next_pc) THEN 1 ELSE 2
     ELSE 0

\* C36: a tick that returns adds to the cycle counter the base cycles of the
\* opcode, plus 1 for an indexed read that crosses a page, plus 1 for a branch
\* taken within the page and 2 for a branch taken to another page.
C36_OopsCycles ==
  TickDone => cycles - last.cycles = Decoded(last.opcode)[4] + OopsPenalty

\* What the code does: a tick that returns adds the base cycles and no more,
\* also for a taken branch and for an indexed read that crosses a page.
C36_BaseCyclesOnly ==
  TickDone
    => /\ cycles - last.cycles = Decoded(last.opcode)[4]
       /\ OopsPenalty \in {0, 1, 2}

----------------------------------------------------------------------------
(* C37 *)

ZeroPageIndexedModes == {"ZEROPAGEX", "ZEROPAGEY"}
AbsoluteIndexedModes == {"ABSOLUTEX", "ABSOLUTEY"}
IndexedModes == ZeroPageIndexedModes \cup AbsoluteIndexedModes

\* The last operation was a tick that decoded a load or a store with an
\* indexed addressing mode.
IndexedLoad ==
  /\ last.op = "clock_tick" /\ last.instr \in {"LDA", "LDX", "LDY"}
  /\ last.addrmode \in IndexedModes
IndexedStore ==
  /\ last.op = "clock_tick" /\ last.instr \in {"STA", "STX", "STY"}
  /\ last.addrmode \in IndexedModes

\* The register a store writes.
StoredRegister ==
  IF last.instr = "STX" THEN "X" ELSE IF last.instr = "STY" THEN "Y" ELSE "A"

\* The machine after a write of the stored register to the address addr.
Written(addr) == write_memory(Before, addr, last.registers[StoredRegister])

\* The index register of the last instruction's addressing mode.
IndexRegister ==
  IF last.addrmode \in {"ZEROPAGEX", "ABSOLUTEX"} THEN "X" ELSE "Y"

\* The indexed address as the claim gives it.
IndexedAddress ==
  LET pc1 == (last.registers.PC + 1) % U16
      index == last.registers[IndexRegister]
  IN IF last.addrmode \in ZeroPageIndexedModes THEN (Peek(pc1) + index) % 256
     ELSE (Peek16(pc1) + index) % 65536

\* Memory is as a write of the stored register to addr leaves it.
StoredAt(addr) ==
  /\ lower_memory = Written(addr).lower_memory
  /\ ppu = Written(addr).ppu
  /\ apu = Written(addr).apu

\* C37: a load with an indexed mode returns with the byte at (operand + index)
\* mod 256 (zero page) or (operand word + index) mod 65536 (absolute) whenever
\* that address can be read, and a store with an indexed mode returns having
\* written that address whenever it can be written, whatever the carry is.
C37_IndexedAddress ==
  /\ (IndexedLoad /\ ReadableBefore(IndexedAddress))
       => /\ status = "running"
          /\ registers[LoadedRegister] = Peek(IndexedAddress)
  /\ (IndexedStore /\ Running(Written(IndexedAddress)))
       => /\ status = "running"
          /\ StoredAt(IndexedAddress)

\* The sum of the operand word and the index leaves the address space.
IndexOverflows ==
  /\ last.addrmode \in AbsoluteIndexedModes
  /\ OperandWord + last.registers[IndexRegister] >= U16

\* What the code does: the loads use the claimed address, and so do the
\* absolute stores, but in a build with overflow checks the absolute sum
\* panics when it leaves the address space; no zero-page store returns.
C37_IndexedAsCoded ==
  /\ (IndexedLoad /\ ReadableBefore(IndexedAddress))
       => IF IndexOverflows /\ overflow_checks THEN status = "overflow"
          ELSE /\ status = "running"
               /\ registers[LoadedRegister] = Peek(IndexedAddress)
  /\ (IndexedStore /\ Running(Written(IndexedAddress)))
       => IF last.addrmode \in ZeroPageIndexedModes THEN status = "todo"
          ELSE IF IndexOverflows /\ overflow_checks THEN status = "overflow"
          ELSE status = "running" /\ StoredAt(IndexedAddress)

----------------------------------------------------------------------------
(* C38 *)

\* The last tick returned from a load of a PPU register other than register 2.
PlainPpuLoad ==
  /\ TickDone /\ AbsoluteLoad
  /\ OperandAddress \in PpuWindow \ {8194}

\* The instruction before the last one in the program text was LDX of the
\* address the last one loads from.
AfterLdxOfSame ==
  /\ Peek((last.registers.PC + U16 - 3) % U16) = 174
  /\ Peek16((last.registers.PC + U16 - 2) % U16) = OperandAddress

\* C38: a tick that loads from a PPU register other than register 2 returns
\* the byte the register held and leaves all eight registers as they were, so
\* that a second load right after the first returns the same byte.
C38_PlainPpuRead ==
  PlainPpuLoad
    => /\ registers[LoadedRegister] = last.ppu[OperandAddress - 8192]
       /\ ppu = last.ppu
       /\ (last.instr = "LDY" /\ AfterLdxOfSame) => registers.Y = registers.X

\* What the code does: the load returns the byte the register held, and
\* leaves the register with bit 7 cleared, whichever register it is.
C38_EveryReadClearsBit7 ==
  PlainPpuLoad
    => /\ registers[LoadedRegister] = last.ppu[OperandAddress - 8192]
       /\ ppu = [last.ppu EXCEPT ![OperandAddress - 8192] = @ % 128]
       /\ (last.instr = "LDY" /\ AfterLdxOfSame) => registers.Y = registers.X % 128

----------------------------------------------------------------------------
(* C39 *)

\* The instruction length the claim gives each addressing mode.
ModeLength(addrmode) ==
  IF addrmode \in {"IMPLIED", "ACCUMULATOR"} THEN 1
  ELSE IF addrmode \in {"ABSOLUTE", "ABSOLUTEX", "ABSOLUTEY", "INDIRECT"} THEN 3
  ELSE 2

\* C39: the length the decoder gives an opcode is the length of its addressing
\* mode: 1 for implied and accumulator, 3 for absolute, absolute indexed and
\* indirect, 2 for every other mode; a tick decodes that length.
C39_LengthByMode ==
  /\ \A opcode \in Accepted : Decoded(opcode)[3] = ModeLength(Decoded(opcode)[2])
  /\ TickOnAccepted => last.bytes = ModeLength(last.addrmode)

\* What the code does: the same but for RTI (0x40), which the table gives the
\* immediate mode with length 1.
C39_AllButRti ==
  /\ \A opcode \in Accepted \ {64} :
       Decoded(opcode)[3] = ModeLength(Decoded(opcode)[2])
  /\ Decoded(64) = <<"RTI", "IMMEDIATE", 1, 6, "NONE">>
  /\ (TickOnAccepted /\ last.opcode # 64) => last.bytes = ModeLength(last.addrmode)
  /\ TickOf("RTI") => last.addrmode = "IMMEDIATE" /\ last.bytes = 1

----------------------------------------------------------------------------
(* C40 *)

\* The last operation was a tick that decoded ADC with D set, in a mode whose
\* operand the tick can read.
DecimalAdc ==
  /\ TickOf("ADC") /\ FlagBefore(DECIMAL)
  /\ last.addrmode \notin IndirectIndexedModes
  /\ ReadableBefore(OperandAddress)
  /\ ~(IndexOverflows /\ overflow_checks)

\* C40: with D set, a tick executing ADC returns for every a, m and carry-in,
\* with C the carry of the binary sum and V, N, Z as the flags of the byte
\* stored in A.
C40_DecimalAdcCompletes ==
  DecimalAdc
    => /\ status = "running"
       /\ FlagNow(CARRY) = (AdcSum >= U8)
       /\ AdcFlagsOf(last.registers.A, Operand, registers.A)

\* What the code does: the tick returns when the binary sum mod 256 has two
\* decimal digits, and panics in decimal_mode when it has one or three, with
\* A and the flags as they were.
C40_DecimalAdcPanics ==
  DecimalAdc
    => IF AdcSum % U8 \in 10..99
         THEN /\ status = "running"
              /\ FlagNow(CARRY) = (AdcSum >= U8)
              /\ AdcFlagsOf(last.registers.A, Operand, registers.A)
         ELSE /\ status = "expect"
              /\ registers = last.registers

====
